---------------------------- MODULE Spec2Model ----------------------------
(***************************************************************************)
(* Model of the use-case OCR consolidation pipeline of                     *)
(* src/usecase_ocr.py (class UseCaseOCR).                                  *)
(*                                                                         *)
(* Representation.                                                         *)
(*  - A Python str is a sequence of one-character strings, so that         *)
(*    lower(), strip(), split(), isdigit(), int(), replace(), `in` and     *)
(*    re.search are computed, not assumed.                                 *)
(*  - Pixel coordinates are integers.  center_x / center_y are kept        *)
(*    doubled (x_min + x_max instead of (x_min + x_max) / 2), and the      *)
(*    comparison "distance < 15" is made on the doubled values.            *)
(*  - The reader's confidences and the threshold are given in hundredths   *)
(*    (90 is the float 0.9).  A confidence of a record is a Python float   *)
(*    (IEEE 754 binary64): the number v * 2^FloatScale written with        *)
(*    FloatDigits digits in base FloatBase, most significant digit first,  *)
(*    so that the sum and the division of line 334 are rounded as the      *)
(*    program rounds them (to FloatPrecision significant binary digits,    *)
(*    ties to even).                                                       *)
(*  - A ratio (IoU, Jaccard) is a pair <<numerator, denominator>> with     *)
(*    denominator > 0; 0.0 is <<0, 1>> and 1.0 is <<1, 1>>.  Comparisons   *)
(*    with a threshold are made by cross-multiplication.                   *)
(***************************************************************************)
EXTENDS Integers, Sequences, FiniteSets, TLC

-----------------------------------------------------------------------------
(* Generic helpers *)

\* Body applied to the value of an expression that is evaluated once (the
\* program evaluates an expression once and names its value)
With(value, Body(_)) == CHOOSE r \in {Body(v) : v \in {value}} : TRUE
With2(value1, value2, Body(_, _)) ==
    CHOOSE r \in {Body(v1, v2) : v1 \in {value1}, v2 \in {value2}} : TRUE

Min2(a, b) == IF a <= b THEN a ELSE b
Max2(a, b) == IF a >= b THEN a ELSE b
Abs(a) == IF a >= 0 THEN a ELSE 0 - a

\* min(s), max(s), sum(s) of a non-empty list of numbers
SeqMin(s) == CHOOSE m \in {s[i] : i \in 1..Len(s)} : \A i \in 1..Len(s) : m <= s[i]
SeqMax(s) == CHOOSE m \in {s[i] : i \in 1..Len(s)} : \A i \in 1..Len(s) : m >= s[i]

RECURSIVE SumTo(_, _)
SumTo(s, n) == IF n = 0 THEN 0 ELSE s[n] + SumTo(s, n - 1)
SeqSum(s) == SumTo(s, Len(s))

\* All sequences over S of length 0..n
RECURSIVE SeqsUpTo(_, _)
SeqsUpTo(S, n) ==
    IF n = 0 THEN {<<>>}
    ELSE LET shorter == SeqsUpTo(S, n - 1)
         IN  shorter \cup {Append(s, x) : s \in {t \in shorter : Len(t) = n - 1}, x \in S}

\* Python's comparison of two tuples of numbers of the same length: k1 < k2
key_less(k1, k2) ==
    \E i \in 1..Len(k1) : k1[i] < k2[i] /\ \A j \in 1..(i - 1) : k1[j] = k2[j]

\* Python's list.sort / sorted (stable) on a list of <<key, item>>: the
\* position (1-based) of element i in the sorted list is the number of elements
\* that go before it (a smaller key, or an equal key and an earlier position)
\* plus one.
sorted_position(pairs, i) ==
    1 + Cardinality({j \in 1..Len(pairs) :
                        \/ key_less(pairs[j][1], pairs[i][1])
                        \/ (pairs[j][1] = pairs[i][1] /\ j < i)})

\* The items of `pairs` in stable ascending key order
sorted_items(pairs) ==
    [p \in 1..Len(pairs) |->
        pairs[CHOOSE i \in 1..Len(pairs) : sorted_position(pairs, i) = p][2]]

sorted_by_key(pairs) == With(pairs, LAMBDA ps : sorted_items(ps))

-----------------------------------------------------------------------------
(* Python float: IEEE 754 binary64, for the values 2^-6 <= v < 8 *)

FloatDigitBits == 15
FloatBase == 2 ^ FloatDigitBits
FloatDigits == 5
FloatScale == 58
FloatPrecision == 53

\* The number of binary digits of a natural number
RECURSIVE bit_length(_)
bit_length(n) == IF n = 0 THEN 0 ELSE 1 + bit_length(n \div 2)

\* The number of binary digits of a natural number given by its digits
big_bit_length(a) ==
    IF \A i \in 1..FloatDigits : a[i] = 0 THEN 0
    ELSE With(CHOOSE i \in 1..FloatDigits : a[i] # 0 /\ \A j \in 1..(i - 1) : a[j] = 0,
              LAMBDA i : FloatDigitBits * (FloatDigits - i) + bit_length(a[i]))

\* <<a \div d, a % d>> for a natural number a given by its digits and a small d
RECURSIVE big_divmod_from(_, _, _, _, _)
big_divmod_from(a, d, i, quotient, remainder) ==
    IF i > FloatDigits THEN <<quotient, remainder>>
    ELSE With(remainder * FloatBase + a[i],
              LAMBDA current :
                  big_divmod_from(a, d, i + 1, Append(quotient, current \div d),
                                  current % d))

big_divmod(a, d) == big_divmod_from(a, d, 1, <<>>, 0)

\* a + b for natural numbers given by their digits
RECURSIVE big_add_from(_, _, _, _, _)
big_add_from(a, b, i, carry, digits) ==
    IF i = 0 THEN digits
    ELSE With(a[i] + b[i] + carry,
              LAMBDA s : big_add_from(a, b, i - 1, s \div FloatBase,
                                      <<s % FloatBase>> \o digits))

big_add(a, b) == big_add_from(a, b, FloatDigits, 0, <<>>)

\* a * u for a natural number a given by its digits and a small u
RECURSIVE big_times_from(_, _, _, _, _)
big_times_from(a, u, i, carry, digits) ==
    IF i = 0 THEN digits
    ELSE With(a[i] * u + carry,
              LAMBDA s : big_times_from(a, u, i - 1, s \div FloatBase,
                                        <<s % FloatBase>> \o digits))

big_times(a, u) == big_times_from(a, u, FloatDigits, 0, <<>>)

big_zero == [i \in 1..FloatDigits |-> 0]
big_one == [i \in 1..FloatDigits |-> IF i = FloatDigits THEN 1 ELSE 0]

\* 2^FloatScale, the float 1.0
float_one ==
    [i \in 1..FloatDigits |->
        IF i = FloatDigits - (FloatScale \div FloatDigitBits)
        THEN 2 ^ (FloatScale % FloatDigitBits) ELSE 0]

\* The float nearest to numerator / n (ties to even): the quotient is rounded
\* to a multiple of its unit in the last place, 2^(binary digits - 53)
float_quotient(numerator, n) ==
    With(2 ^ Max2(0, big_bit_length(big_divmod(numerator, n)[1]) - FloatPrecision),
         LAMBDA ulp :
             With(big_divmod(numerator, n * ulp),
                  LAMBDA qr :
                      big_times(IF \/ 2 * qr[2] > n * ulp
                                   \/ (2 * qr[2] = n * ulp /\ qr[1][FloatDigits] % 2 = 1)
                                THEN big_add(qr[1], big_one)
                                ELSE qr[1],
                                ulp)))

\* x + y of two floats
float_add(x, y) == float_quotient(big_add(x, y), 1)

\* x / n of a float and an int
float_div(x, n) == float_quotient(x, n)

\* The float that the decimal c/100 denotes
float_of_hundredths(c) == float_quotient(big_times(float_one, c), 100)

\* x < y and x <= y of two floats
float_less(x, y) == key_less(x, y)
float_le(x, y) == x = y \/ key_less(x, y)

\* sum(values) of a non-empty list of floats: 0 + values[0] + values[1] + ...
RECURSIVE float_sum_to(_, _)
float_sum_to(values, n) ==
    IF n = 1 THEN values[1]
    ELSE float_add(float_sum_to(values, n - 1), values[n])

float_sum(values) == float_sum_to(values, Len(values))

\* The elements of a finite set of integers in ascending order
ascending(S) ==
    [p \in 1..Cardinality(S) |->
        CHOOSE x \in S : Cardinality({y \in S : y < x}) = p - 1]

\* Ratios <<numerator, denominator>>, denominator > 0
ratio_gt(r, q) == r[1] * q[2] > q[1] * r[2]
ratio_eq(r, q) == r[1] * q[2] = q[1] * r[2]

-----------------------------------------------------------------------------
(* Python str operations on sequences of characters *)

Whitespace == {" "}
Digits == <<"0", "1", "2", "3", "4", "5", "6", "7", "8", "9">>

lower_char(c) ==
    CASE c = "A" -> "a" [] c = "B" -> "b" [] c = "C" -> "c" [] c = "D" -> "d"
      [] c = "E" -> "e" [] c = "F" -> "f" [] c = "G" -> "g" [] c = "H" -> "h"
      [] c = "I" -> "i" [] c = "J" -> "j" [] c = "K" -> "k" [] c = "L" -> "l"
      [] c = "M" -> "m" [] c = "N" -> "n" [] c = "O" -> "o" [] c = "P" -> "p"
      [] c = "Q" -> "q" [] c = "R" -> "r" [] c = "S" -> "s" [] c = "T" -> "t"
      [] c = "U" -> "u" [] c = "V" -> "v" [] c = "W" -> "w" [] c = "X" -> "x"
      [] c = "Y" -> "y" [] c = "Z" -> "z" [] OTHER -> c

\* str.lower()
lower(t) == [i \in 1..Len(t) |-> lower_char(t[i])]

\* str.strip(): from the first to the last character that is not whitespace
strip(t) ==
    LET solid == {i \in 1..Len(t) : t[i] \notin Whitespace}
    IN  IF solid = {} THEN <<>>
        ELSE SubSeq(t, CHOOSE i \in solid : \A j \in solid : i <= j,
                       CHOOSE i \in solid : \A j \in solid : i >= j)

\* text.lower().strip(), evaluated once
lower_strip(text) == With(lower(text), LAMBDA t : strip(t))

\* s in t  (substring test)
str_in(s, t) ==
    \E i \in 1..(Len(t) - Len(s) + 1) : SubSeq(t, i, i + Len(s) - 1) = s

\* str.split(): the maximal runs of non-whitespace characters, in order
word_starts(t) ==
    {i \in 1..Len(t) : t[i] \notin Whitespace /\ (i = 1 \/ t[i - 1] \in Whitespace)}

word_end(t, i) ==
    CHOOSE j \in i..Len(t) :
        /\ \A m \in i..j : t[m] \notin Whitespace
        /\ (j = Len(t) \/ t[j + 1] \in Whitespace)

split(t) ==
    With(ascending(word_starts(t)),
         LAMBDA starts : [k \in 1..Len(starts) |-> SubSeq(t, starts[k], word_end(t, starts[k]))])

\* set(t.split())
word_set(t) == With(split(t), LAMBDA words : {words[i] : i \in 1..Len(words)})

\* Characters for which str.isdigit() holds although int() does not accept them
\* (Unicode digits that are not decimal digits)
SuperscriptDigits == {"²", "³"}

\* str.isdecimal(): the strings of digits that int() accepts
isdecimal(t) == t # <<>> /\ \A i \in 1..Len(t) : \E d \in 1..10 : Digits[d] = t[i]

\* str.isdigit()
isdigit(t) ==
    /\ t # <<>>
    /\ \A i \in 1..Len(t) : (\E d \in 1..10 : Digits[d] = t[i]) \/ t[i] \in SuperscriptDigits

\* int(t) raises ValueError
int_raises(t) == ~isdecimal(t)

\* int(t) for a string of decimal digits
digit_value(c) == (CHOOSE d \in 1..10 : Digits[d] = c) - 1

RECURSIVE int_prefix(_, _)
int_prefix(t, n) == IF n = 0 THEN 0 ELSE 10 * int_prefix(t, n - 1) + digit_value(t[n])
int(t) == int_prefix(t, Len(t))

\* str.replace(old, new) from position i on: non-overlapping occurrences of
\* old, left to right
RECURSIVE replace_from(_, _, _, _)
replace_from(t, old, new, i) ==
    IF i + Len(old) - 1 > Len(t) THEN SubSeq(t, i, Len(t))
    ELSE IF SubSeq(t, i, i + Len(old) - 1) = old
         THEN new \o replace_from(t, old, new, i + Len(old))
         ELSE <<t[i]>> \o replace_from(t, old, new, i + 1)

replace(t, old, new) == replace_from(t, old, new, 1)

\* sep.join(texts), from the n-th text back
RECURSIVE join_to(_, _, _)
join_to(sep, texts, n) ==
    IF n = 0 THEN <<>>
    ELSE IF n = 1 THEN texts[1]
    ELSE join_to(sep, texts, n - 1) \o sep \o texts[n]

join(sep, texts) == join_to(sep, texts, Len(texts))

\* Regular expressions of is_actor_text: a pattern is a sequence of items
\* <<"lit", s>> (the literal s), <<"ws*">> (any run of whitespace, possibly
\* empty) and <<"opt", c>> (the character c, optional).  re_match(p, k, t, i):
\* the items k.. of p match t from position i on.
RECURSIVE re_match(_, _, _, _)
re_match(p, k, t, i) ==
    IF k > Len(p) THEN TRUE
    ELSE CASE p[k][1] = "lit" ->
                  /\ i + Len(p[k][2]) - 1 <= Len(t)
                  /\ SubSeq(t, i, i + Len(p[k][2]) - 1) = p[k][2]
                  /\ re_match(p, k + 1, t, i + Len(p[k][2]))
           [] p[k][1] = "ws*" ->
                  \/ re_match(p, k + 1, t, i)
                  \/ (i <= Len(t) /\ t[i] \in Whitespace /\ re_match(p, k, t, i + 1))
           [] p[k][1] = "opt" ->
                  \/ (i <= Len(t) /\ t[i] = p[k][2] /\ re_match(p, k + 1, t, i + 1))
                  \/ re_match(p, k + 1, t, i)

\* re.search(p, t, re.IGNORECASE) on an already lowercase t
re_search(p, t) == \E i \in 1..(Len(t) + 1) : re_match(p, 1, t, i)

-----------------------------------------------------------------------------
(* Box geometry *)

expand_x == 30
expand_y == 25

\* The coordinates of the points of a box
x_coords(bbox) == [i \in 1..Len(bbox) |-> bbox[i][1]]
y_coords(bbox) == [i \in 1..Len(bbox) |-> bbox[i][2]]

\* Mutant of _expand_bbox: the grown box is not limited to the image
_expand_bbox_unclamped(bbox, ex, ey, width, height) ==
    LET x_min == SeqMin(x_coords(bbox)) - ex
        y_min == SeqMin(y_coords(bbox)) - ey
        x_max == SeqMax(x_coords(bbox)) + ex
        y_max == SeqMax(y_coords(bbox)) + ey
    IN  << <<x_min, y_min>>, <<x_max, y_min>>, <<x_max, y_max>>, <<x_min, y_max>> >>

\* UseCaseOCR._expand_bbox (width, height: the image size, self.width/self.height)
_expand_bbox(bbox, ex, ey, width, height) ==
    LET x_min == Max2(0, SeqMin(x_coords(bbox)) - ex)
        y_min == Max2(0, SeqMin(y_coords(bbox)) - ey)
        x_max == Min2(width, SeqMax(x_coords(bbox)) + ex)
        y_max == Min2(height, SeqMax(y_coords(bbox)) + ey)
    IN  << <<x_min, y_min>>, <<x_max, y_min>>, <<x_max, y_max>>, <<x_min, y_max>> >>

\* Mutant of iou_ratio: the union is taken to be the first area
iou_ratio_first_area(intersection_area, area1, area2) ==
    IF area1 > 0 THEN <<intersection_area, area1>> ELSE <<0, 1>>

\* Mutant of iou_ratio: the test union_area > 0 is missing
iou_ratio_unguarded(intersection_area, area1, area2) ==
    <<intersection_area, area1 + area2 - intersection_area>>

\* The ratio returned by _calculate_iou when the rectangles do overlap
iou_ratio(intersection_area, area1, area2) ==
    LET union_area == area1 + area2 - intersection_area
    IN  IF union_area > 0 THEN <<intersection_area, union_area>> ELSE <<0, 1>>

\* Mutant of _calculate_iou: the test for rectangles that do not overlap is missing
_calculate_iou_unchecked(bbox1, bbox2) ==
    LET x1_1 == bbox1[1][1]   y1_1 == bbox1[1][2]
        x2_1 == bbox1[3][1]   y2_1 == bbox1[3][2]
        x1_2 == bbox2[1][1]   y1_2 == bbox2[1][2]
        x2_2 == bbox2[3][1]   y2_2 == bbox2[3][2]
        x_left == Max2(x1_1, x1_2)
        y_top == Max2(y1_1, y1_2)
        x_right == Min2(x2_1, x2_2)
        y_bottom == Min2(y2_1, y2_2)
    IN  iou_ratio((x_right - x_left) * (y_bottom - y_top),
                  (x2_1 - x1_1) * (y2_1 - y1_1),
                  (x2_2 - x1_2) * (y2_2 - y1_2))

\* UseCaseOCR._calculate_iou: the rectangles are read from the first and the
\* third point of each box
_calculate_iou(bbox1, bbox2) ==
    LET x1_1 == bbox1[1][1]   y1_1 == bbox1[1][2]
        x2_1 == bbox1[3][1]   y2_1 == bbox1[3][2]
        x1_2 == bbox2[1][1]   y1_2 == bbox2[1][2]
        x2_2 == bbox2[3][1]   y2_2 == bbox2[3][2]
        x_left == Max2(x1_1, x1_2)
        y_top == Max2(y1_1, y1_2)
        x_right == Min2(x2_1, x2_2)
        y_bottom == Min2(y2_1, y2_2)
    IN  IF x_right < x_left \/ y_bottom < y_top THEN <<0, 1>>
        ELSE iou_ratio((x_right - x_left) * (y_bottom - y_top),
                       (x2_1 - x1_1) * (y2_1 - y1_1),
                       (x2_2 - x1_2) * (y2_2 - y1_2))

-----------------------------------------------------------------------------
(* Fragment merger *)

\* The tests of _should_merge_texts on t1, t2 (lines 200-237)
related_texts(t1, t2) ==
    IF str_in(t1, t2) \/ str_in(t2, t1) THEN TRUE
    ELSE IF isdigit(t1) /\ ~isdigit(t2) THEN TRUE
    ELSE IF isdigit(t2) /\ ~isdigit(t1) THEN TRUE
    ELSE IF isdigit(t1) /\ isdigit(t2) /\ Abs(int(t1) - int(t2)) <= 2 THEN TRUE
    ELSE \E word \in word_set(t1) \cap word_set(t2) : Len(word) > 3

\* _should_merge_texts raises ValueError: the tests of lines 200-209 do not
\* return, both texts pass isdigit() and int() does not accept one of them
\* (lines 212-214)
related_texts_raises(t1, t2) ==
    /\ isdigit(t1) /\ isdigit(t2)
    /\ ~(str_in(t1, t2) \/ str_in(t2, t1))
    /\ (int_raises(t1) \/ int_raises(t2))

_should_merge_texts_raises(text1, text2) ==
    With2(lower_strip(text1), lower_strip(text2),
          LAMBDA t1, t2 : related_texts_raises(t1, t2))

\* UseCaseOCR._should_merge_texts (its value when it does not raise)
_should_merge_texts(text1, text2) ==
    With2(lower_strip(text1), lower_strip(text2), LAMBDA t1, t2 : related_texts(t1, t2))

\* The fields _merge_similar_boxes adds to each result (lines 254-264);
\* center_x and center_y are doubled
prepare(result, idx) ==
    LET xs == x_coords(result.bbox)
        ys == y_coords(result.bbox)
    IN  [bbox |-> result.bbox, text |-> result.text,
         confidence |-> result.confidence, original_bbox |-> result.original_bbox,
         id |-> idx,
         x_min |-> SeqMin(xs), y_min |-> SeqMin(ys),
         x_max |-> SeqMax(xs), y_max |-> SeqMax(ys),
         center_x |-> SeqMin(xs) + SeqMax(xs),
         center_y |-> SeqMin(ys) + SeqMax(ys)]

\* results.sort(key=lambda x: (x['y_min'], x['x_min']))
sort_by_position(results) ==
    sorted_by_key([i \in 1..Len(results) |->
                     << <<results[i].y_min, results[i].x_min>>, results[i] >>])

\* The list `results` as _merge_similar_boxes leaves it (annotated and sorted
\* in place, ids numbered from 0)
prepared_results(results) ==
    With([i \in 1..Len(results) |-> prepare(results[i], i - 1)],
         LAMBDA annotated : sort_by_position(annotated))

vertical_distance_limit == 15
horizontal_gap_limit == 100

\* horizontal_gap of the seed ri and the later result rj (line 291)
horizontal_gap(ri, rj) == Max2(0, rj.x_min - ri.x_max)

\* The decision should_merge for the seed ri and a later result rj (lines 284-304)
should_merge(ri, rj, iou_threshold) ==
    LET iou == _calculate_iou(ri.bbox, rj.bbox)
        vertical_distance2 == Abs(ri.center_y - rj.center_y)
    IN  IF ratio_gt(iou, iou_threshold) THEN TRUE
        ELSE IF vertical_distance2 < 2 * vertical_distance_limit
                /\ horizontal_gap(ri, rj) < horizontal_gap_limit
             THEN _should_merge_texts(ri.text, rj.text)
             ELSE FALSE

\* Computing should_merge for the seed ri and a later result rj raises
\* ValueError: _should_merge_texts is called (line 303) and raises
should_merge_raises(ri, rj, iou_threshold) ==
    /\ Abs(ri.center_y - rj.center_y) < 2 * vertical_distance_limit
    /\ horizontal_gap(ri, rj) < horizontal_gap_limit
    /\ ~ratio_gt(_calculate_iou(ri.bbox, rj.bbox), iou_threshold)
    /\ _should_merge_texts_raises(ri.text, rj.text)

\* Mutant of claimed_by: the test `j in used_ids` (lines 281-282) is missing
claimed_by_again(results, i, used_ids, iou_threshold) ==
    {j \in (i + 1)..Len(results) : should_merge(results[i], results[j], iou_threshold)}

\* Mutant of claimed_by: a result is also claimed when it should merge with a
\* member the seed has claimed already (connected components)
claimed_by_any_member(results, i, used_ids, iou_threshold) ==
    LET reach[n \in 0..Len(results)] ==
            IF n = 0 THEN {i}
            ELSE reach[n - 1] \cup
                 {j \in (i + 1)..Len(results) :
                     /\ j \notin used_ids
                     /\ \E m \in reach[n - 1] :
                           should_merge(results[m], results[j], iou_threshold)}
    IN  reach[Len(results)] \ {i}

\* The results the seed i claims: the inner loop of lines 280-308
claimed_by(results, i, used_ids, iou_threshold) ==
    {j \in (i + 1)..Len(results) :
        /\ j \notin used_ids
        /\ should_merge(results[i], results[j], iou_threshold)}

\* The groups built by the loops of lines 270-311, as sequences of indices
\* (1-based) into the sorted list: the seed first, then the members it claimed
RECURSIVE build_groups(_, _, _, _)
build_groups(results, i, used_ids, iou_threshold) ==
    IF i > Len(results) THEN <<>>
    ELSE IF i \in used_ids THEN build_groups(results, i + 1, used_ids, iou_threshold)
    ELSE With2(claimed_by(results, i, used_ids, iou_threshold), used_ids,
               LAMBDA members, used :
                   << <<i>> \o ascending(members) >>
                   \o build_groups(results, i + 1, used \cup {i} \cup members,
                                   iou_threshold))

\* The loops of lines 270-311 raise ValueError: for some seed, should_merge
\* raises on a later result that is not claimed yet
RECURSIVE groups_raise(_, _, _, _)
groups_raise(results, i, used_ids, iou_threshold) ==
    IF i > Len(results) THEN FALSE
    ELSE IF i \in used_ids THEN groups_raise(results, i + 1, used_ids, iou_threshold)
    ELSE IF \E j \in (i + 1)..Len(results) :
                j \notin used_ids /\ should_merge_raises(results[i], results[j], iou_threshold)
         THEN TRUE
         ELSE With2(claimed_by(results, i, used_ids, iou_threshold), used_ids,
                    LAMBDA members, used :
                        groups_raise(results, i + 1, used \cup {i} \cup members,
                                     iou_threshold))

\* Mutant of sort_group: the group is left in the order it was built (seed first)
sort_group_missing(group) == group

\* sorted(group, key=lambda x: x['x_min'])
sort_group(group) ==
    sorted_by_key([k \in 1..Len(group) |-> << <<group[k].x_min>>, group[k] >>])

\* combined_text (line 331)
combined_text(group) ==
    With(sort_group(group),
         LAMBDA sorted_group :
             join(<<" ">>, [k \in 1..Len(sorted_group) |-> sorted_group[k].text]))

\* Mutant of avg_confidence: the confidence of the seed is kept
avg_confidence_of_seed(group) == group[1].confidence

\* avg_confidence (line 334)
avg_confidence(group) ==
    float_div(float_sum([k \in 1..Len(group) |-> group[k].confidence]), Len(group))

\* The result made of one group (lines 316-354)
merge_group(group) ==
    IF Len(group) = 1 THEN group[1]
    ELSE LET x_mins == [k \in 1..Len(group) |-> group[k].x_min]
             y_mins == [k \in 1..Len(group) |-> group[k].y_min]
             x_maxs == [k \in 1..Len(group) |-> group[k].x_max]
             y_maxs == [k \in 1..Len(group) |-> group[k].y_max]
         IN  [bbox |-> << <<SeqMin(x_mins), SeqMin(y_mins)>>,
                          <<SeqMax(x_maxs), SeqMin(y_mins)>>,
                          <<SeqMax(x_maxs), SeqMax(y_maxs)>>,
                          <<SeqMin(x_mins), SeqMax(y_maxs)>> >>,
              text |-> combined_text(group),
              confidence |-> avg_confidence(group),
              x_min |-> SeqMin(x_mins), y_min |-> SeqMin(y_mins),
              x_max |-> SeqMax(x_maxs), y_max |-> SeqMax(y_maxs),
              merged_from |-> Len(group)]

\* result.get('merged_from', 1) (line 519)
merged_count(result) ==
    IF "merged_from" \in DOMAIN result THEN result.merged_from ELSE 1

\* merged_results for the groups (lines 314-356)
merge_groups(sorted, groups) ==
    [g \in 1..Len(groups) |->
        With([k \in 1..Len(groups[g]) |-> sorted[groups[g][k]]],
             LAMBDA group : merge_group(group))]

\* _merge_similar_boxes from the sorted list on (lines 269-356)
merge_prepared(sorted, iou_threshold) ==
    With(build_groups(sorted, 1, {}, iou_threshold),
         LAMBDA groups : merge_groups(sorted, groups))

\* UseCaseOCR._merge_similar_boxes: the list it returns
_merge_similar_boxes(results, iou_threshold) ==
    IF results = <<>> THEN <<>>
    ELSE With(prepared_results(results),
              LAMBDA sorted : merge_prepared(sorted, iou_threshold))

\* int() can raise only on a text that passes isdigit() and is not decimal
may_raise(text) ==
    With(lower_strip(text), LAMBDA t : isdigit(t) /\ int_raises(t))

\* UseCaseOCR._merge_similar_boxes raises ValueError instead of returning (when
\* no text can make int() raise, the loops need not be walked)
_merge_similar_boxes_raises(results, iou_threshold) ==
    IF results = <<>> THEN FALSE
    ELSE IF \A k \in 1..Len(results) : ~may_raise(results[k].text) THEN FALSE
    ELSE With(prepared_results(results),
              LAMBDA sorted : groups_raise(sorted, 1, {}, iou_threshold))

-----------------------------------------------------------------------------
(* Duplicate eliminator *)

\* The Jaccard index of two word sets (lines 385-391)
jaccard(words1, words2) ==
    IF words1 = {} \/ words2 = {} THEN <<0, 1>>
    ELSE <<Cardinality(words1 \cap words2), Cardinality(words1 \cup words2)>>

\* text_similarity on the lowercase, stripped texts (lines 378-391)
similarity_of(text1_lower, text2_lower) ==
    IF str_in(text1_lower, text2_lower) \/ str_in(text2_lower, text1_lower)
    THEN <<1, 1>>
    ELSE With2(word_set(text1_lower), word_set(text2_lower),
               LAMBDA words1, words2 : jaccard(words1, words2))

\* text_similarity, the function nested in _remove_duplicate_cases
text_similarity(text1, text2) ==
    With2(lower_strip(text1), lower_strip(text2),
          LAMBDA text1_lower, text2_lower : similarity_of(text1_lower, text2_lower))

\* Mutant of sort_by_confidence: the list is left in the order it came in
sort_by_confidence_missing(results) == results

\* results.sort(key=lambda x: x['confidence'], reverse=True): stable, so equal
\* confidences keep their order
sort_by_confidence(results) ==
    sorted_by_key([i \in 1..Len(results) |->
                     << [d \in 1..FloatDigits |-> 0 - results[i].confidence[d]],
                        results[i] >>])

duplicate_iou_threshold == <<5, 10>>

\* Mutant of is_duplicate: only the result accepted last is compared
is_duplicate_of_last(result, unique_results, similarity_threshold) ==
    /\ unique_results # <<>>
    /\ \E u \in {Len(unique_results)} :
         \/ ratio_gt(text_similarity(result.text, unique_results[u].text),
                     similarity_threshold)
         \/ ratio_gt(_calculate_iou(result.bbox, unique_results[u].bbox), <<5, 10>>)

\* Mutant of is_duplicate: the spatial test iou > 0.5 is missing
is_duplicate_text_only(result, unique_results, similarity_threshold) ==
    \E u \in 1..Len(unique_results) :
        ratio_gt(text_similarity(result.text, unique_results[u].text), similarity_threshold)

\* is_duplicate after the inner loop of lines 400-410
is_duplicate(result, unique_results, similarity_threshold) ==
    \E u \in 1..Len(unique_results) :
        \/ ratio_gt(text_similarity(result.text, unique_results[u].text),
                    similarity_threshold)
        \/ ratio_gt(_calculate_iou(result.bbox, unique_results[u].bbox),
                    duplicate_iou_threshold)

\* The loop of lines 396-413 from position k of the sorted list on
RECURSIVE unique_loop(_, _, _, _)
unique_loop(results, k, unique_results, similarity_threshold) ==
    IF k > Len(results) THEN unique_results
    ELSE With(IF is_duplicate(results[k], unique_results, similarity_threshold)
              THEN unique_results
              ELSE Append(unique_results, results[k]),
              LAMBDA unique : unique_loop(results, k + 1, unique, similarity_threshold))

\* UseCaseOCR._remove_duplicate_cases: the list it returns
_remove_duplicate_cases(results, similarity_threshold) ==
    IF results = <<>> THEN <<>>
    ELSE With(sort_by_confidence(results),
              LAMBDA sorted : unique_loop(sorted, 1, <<>>, similarity_threshold))

-----------------------------------------------------------------------------
(* Actor / relation filter *)

lt2 == <<"<", "<">>
gt2 == <<">", ">">>
include == <<"i","n","c","l","u","d","e">>
extend == <<"e","x","t","e","n","d">>

uml_relations ==
    << include, extend,
       <<"i","n","c","l","u","d","e","s">>, <<"e","x","t","e","n","d","s">>,
       <<"i","n","c","l","u","d">>, extend >>

uml_patterns ==
    << << <<"lit", lt2>>, <<"ws*">>, <<"lit", include>>, <<"ws*">>, <<"lit", gt2>> >>,
       << <<"lit", lt2>>, <<"ws*">>, <<"lit", extend>>, <<"ws*">>, <<"lit", gt2>> >>,
       << <<"lit", lt2>>, <<"ws*">>, <<"lit", include>>, <<"opt", "s">>, <<"ws*">>,
          <<"lit", <<">">> >>, <<"opt", ">">> >>,
       << <<"lit", lt2>>, <<"ws*">>, <<"lit", extend>>, <<"opt", "s">>, <<"ws*">>,
          <<"lit", <<">">> >>, <<"opt", ">">> >>,
       << <<"lit", include>>, <<"ws*">>, <<"lit", gt2>> >>,
       << <<"lit", extend>>, <<"ws*">>, <<"lit", gt2>> >>,
       << <<"lit", lt2>>, <<"ws*">>, <<"lit", include>> >>,
       << <<"lit", lt2>>, <<"ws*">>, <<"lit", extend>> >>,
       << <<"lit", <<"t","e","n","d">> >> >> >>

arrow_patterns == << <<"-", ">">>, <<"-", "-", ">">>, gt2, lt2 >>

\* Mutant of blacklist_match: only the exact comparison is made
blacklist_match_exact(text_lower, blacklist) ==
    \E a \in 1..Len(blacklist) : lower(blacklist[a]) = text_lower

\* Check 1 of is_actor_text (lines 66-73)
blacklist_match(text_lower, blacklist) ==
    \E a \in 1..Len(blacklist) :
        \E actor_text_lower \in {lower(blacklist[a])} :
            \/ actor_text_lower = text_lower
            \/ str_in(actor_text_lower, text_lower)
            \/ str_in(text_lower, actor_text_lower)

\* Check 2 (lines 77-87)
relation_match(text_lower) ==
    \E no_lt \in {replace(text_lower, lt2, <<>>)} :
    \E no_gt \in {replace(no_lt, gt2, <<>>)} :
    \E text_clean \in {strip(no_gt)} :
        \E r \in 1..Len(uml_relations) : str_in(uml_relations[r], text_clean)

\* Mutant of pattern_match: the catch-all pattern 'tend' is missing
pattern_match_no_catch_all(text_lower) ==
    \E p \in 1..(Len(uml_patterns) - 1) : re_search(uml_patterns[p], text_lower)

\* Check 3 (lines 91-105)
pattern_match(text_lower) ==
    \E p \in 1..Len(uml_patterns) : re_search(uml_patterns[p], text_lower)

\* Check 4 (lines 108-113)
arrow_match(text, text_lower) ==
    \E a \in 1..Len(arrow_patterns) :
        /\ str_in(arrow_patterns[a], text)
        /\ (str_in(include, text_lower) \/ str_in(extend, text_lower))

\* Mutant of actor_checks: only the blacklist is consulted
actor_checks_blacklist_only(text, text_lower, blacklist) ==
    blacklist_match(text_lower, blacklist)

\* The four checks of is_actor_text, in order
actor_checks(text, text_lower, blacklist) ==
    \/ blacklist_match(text_lower, blacklist)
    \/ relation_match(text_lower)
    \/ pattern_match(text_lower)
    \/ arrow_match(text, text_lower)

\* Mutant of is_actor_text: the text is not lowercased before the checks
is_actor_text_case_sensitive(text, blacklist) ==
    \E text_stripped \in {strip(text)} : actor_checks(text, text_stripped, blacklist)

\* UseCaseOCR.is_actor_text
is_actor_text(text, blacklist) ==
    \E text_lower \in {lower_strip(text)} : actor_checks(text, text_lower, blacklist)

\* Mutant of init_blacklist: whitespace-only names are not skipped
init_blacklist_unfiltered(blacklist_argument) ==
    [i \in 1..Len(blacklist_argument) |-> lower_strip(blacklist_argument[i])]

\* UseCaseOCR.__init__, lines 32-34: the blacklist built from the argument
init_blacklist(blacklist_argument) ==
    With(SelectSeq(blacklist_argument, LAMBDA text : strip(text) # <<>>),
         LAMBDA kept : [i \in 1..Len(kept) |-> lower_strip(kept[i])])

\* UseCaseOCR.add_actor_blacklist: the blacklist after the call
add_actor_blacklist(blacklist, actor_texts) ==
    With(SelectSeq(actor_texts, LAMBDA text : text # <<>> /\ strip(text) # <<>>),
         LAMBDA kept : blacklist \o [i \in 1..Len(kept) |-> lower_strip(kept[i])])

-----------------------------------------------------------------------------
(* Pipeline orchestrator: UseCaseOCR.run_ocr *)

min_text_length == 2
MergeIouThreshold == <<2, 10>>
DedupSimilarityThreshold == <<7, 10>>

\* Bounds of the model
MaxDet == 3
MaxRuns == 2
ImageWidth == 400
ImageHeight == 300

\* float(confidence) of a raw confidence given in hundredths
to_float(confidence) == float_of_hundredths(confidence)

\* Mutant of passes: a confidence equal to the threshold is skipped too
passes_above_only(r, threshold) ==
    IF r.confidence <= threshold THEN FALSE
    ELSE IF Len(strip(r.text)) < min_text_length THEN FALSE
    ELSE TRUE

\* Mutant of passes: a text of two characters is skipped too
passes_longer_than_two(r, threshold) ==
    IF r.confidence < threshold THEN FALSE
    ELSE IF Len(strip(r.text)) <= min_text_length THEN FALSE
    ELSE TRUE

\* The raw detections the loop of lines 634-651 does not skip
passes(r, threshold) ==
    IF r.confidence < threshold THEN FALSE
    ELSE IF Len(strip(r.text)) < min_text_length THEN FALSE
    ELSE TRUE

\* The record appended for a raw detection (lines 644-651)
processed_result(r) ==
    [bbox |-> _expand_bbox(r.bbox, expand_x, expand_y, ImageWidth, ImageHeight),
     text |-> strip(r.text),
     confidence |-> to_float(r.confidence),
     original_bbox |-> r.bbox]

\* The loop of lines 632-651 (detection normalizer)
normalize(raw, threshold) ==
    With(SelectSeq(raw, LAMBDA r : passes(r, threshold)),
         LAMBDA kept : [i \in 1..Len(kept) |-> processed_result(kept[i])])

\* The results that is_actor_text does not exclude (lines 671-674)
accepted(unique_results, blacklist) ==
    SelectSeq(unique_results, LAMBDA result : ~is_actor_text(result.text, blacklist))

\* Mutant of reset_filtered: the list is not emptied before the loop
reset_filtered_missing(previous) == previous

\* self.filtered_results = [] (line 668); `previous` is the field's old value
reset_filtered(previous) == <<>>

\* The new value of self.filtered_results (lines 668-681) when the loop
\* accepts the results `kept`
filter_results(kept, previous) ==
    reset_filtered(previous)
    \o [i \in 1..Len(kept) |-> [bbox |-> kept[i].bbox, text |-> kept[i].text,
                                confidence |-> kept[i].confidence]]

\* Mutant of reset_use_cases: the list is not emptied before the loop
reset_use_cases_missing(previous) == previous

\* self.use_cases = [] (line 669)
reset_use_cases(previous) == <<>>

\* The new value of self.use_cases (lines 669-682)
filter_use_cases(kept, previous) ==
    reset_use_cases(previous) \o [i \in 1..Len(kept) |-> kept[i].text]

\* UseCaseOCR.get_use_cases
get_use_cases(current_use_cases) == current_use_cases

\* Mutant of get_formatted_results: the ids are the positions counted from 0
get_formatted_results_from_zero(current_filtered_results) ==
    [n \in 1..Len(current_filtered_results) |->
        [id |-> n - 1,
         text |-> current_filtered_results[n].text,
         confidence |-> current_filtered_results[n].confidence,
         bbox |-> current_filtered_results[n].bbox]]

\* UseCaseOCR.get_formatted_results: enumerate counts idx from 0 and the id is
\* idx + 1; every point [x, y] of the box becomes the pair (float(x), float(y))
get_formatted_results(current_filtered_results) ==
    [n \in 1..Len(current_filtered_results) |->
        LET idx == n - 1
            result == current_filtered_results[n]
        IN  [id |-> idx + 1,
             text |-> result.text,
             confidence |-> result.confidence,
             bbox |-> [k \in 1..Len(result.bbox) |->
                          <<result.bbox[k][1], result.bbox[k][2]>>]]]

-----------------------------------------------------------------------------
(* State *)

VARIABLES
    readtext,              \* what self.reader.readtext returns for the image
    confidence_threshold,  \* the caller's ocr_confidence, passed to every run_ocr
    results,               \* self.results ("None" before the first run)
    actor_blacklist,       \* self.actor_blacklist
    filtered_results,      \* self.filtered_results
    use_cases,             \* self.use_cases
    processed_results,     \* run_ocr's local, as the last run left it
    merged_results,        \* run_ocr's local, as the last run left it
    unique_results,        \* run_ocr's local, as the last run left it
    calls,                 \* the lists returned by the finished run_ocr calls
    raised,                \* the exception the last run_ocr call raised ("None": none)
    iou_args,              \* the arguments of a direct _calculate_iou call
    iou_result,            \* and the ratio it returned (<<>> before the call)
    request,               \* the request detect_actors handles (<<>>: none)
    response               \* and the answer to it (<<>> before the answer)

vars == <<readtext, confidence_threshold, results, actor_blacklist, filtered_results,
          use_cases, processed_results, merged_results, unique_results, calls,
          raised, iou_args, iou_result, request, response>>

\* No request to the API is handled
NoRequest == request = <<>> /\ response = <<>>

\* A box given by two opposite corners: top-left, top-right, bottom-right, bottom-left
Rect(x1, y1, x2, y2) == << <<x1, y1>>, <<x2, y1>>, <<x2, y2>>, <<x1, y2>> >>

\* One element of the OCR reader's output: (bbox, text, confidence), the
\* confidence in hundredths
Det(text, confidence, bbox) == [bbox |-> bbox, text |-> text, confidence |-> confidence]

\* UseCaseOCR.__init__ (lines 23, 32-38) for a constructor argument
InitObject(blacklist_argument) ==
    /\ results = "None"
    /\ actor_blacklist = init_blacklist(blacklist_argument)
    /\ filtered_results = <<>>
    /\ use_cases = <<>>
    /\ processed_results = <<>>
    /\ merged_results = <<>>
    /\ unique_results = <<>>
    /\ calls = <<>>
    /\ raised = "None"

\* Mutant of results_after_run: the box of a raw detection is expanded in place
results_after_run_expanded(raw) ==
    [d \in 1..Len(raw) |->
        [bbox |-> _expand_bbox(raw[d].bbox, expand_x, expand_y, ImageWidth, ImageHeight),
         text |-> raw[d].text, confidence |-> raw[d].confidence]]

\* self.results after run_ocr: the list the reader returned (line 625); the
\* loop of lines 634-651 unpacks its elements and writes to none of them,
\* _expand_bbox builds a new box (lines 139-144), and the Merger and the
\* Deduplicator work on the records appended at lines 646-651
results_after_run(raw) == raw

\* UseCaseOCR.run_ocr(confidence_threshold), when the Merger raises: the
\* exception leaves run_ocr after self.results was assigned (line 625) and
\* before the output lists are emptied (lines 668-669)
RunOcrRaises ==
    /\ results' = results_after_run(readtext)
    /\ raised' = "ValueError"
    /\ UNCHANGED <<processed_results, merged_results, unique_results, filtered_results,
                   use_cases, calls>>

\* UseCaseOCR.run_ocr(confidence_threshold), when it returns
RunOcrReturns(processed) ==
    \E merged \in {_merge_similar_boxes(processed, MergeIouThreshold)} :
    \E unique \in {_remove_duplicate_cases(merged, DedupSimilarityThreshold)} :
    \E kept \in {accepted(unique, actor_blacklist)} :
    \E filtered \in {filter_results(kept, filtered_results)} :
        /\ results' = results_after_run(readtext)
        /\ processed_results' = prepared_results(processed)
        /\ merged_results' = sort_by_confidence(merged)
        /\ unique_results' = unique
        /\ filtered_results' = filtered
        /\ use_cases' = filter_use_cases(kept, use_cases)
        /\ calls' = Append(calls, filtered)
        /\ raised' = "None"

\* UseCaseOCR.run_ocr(confidence_threshold)
RunOcr ==
    /\ Len(calls) < MaxRuns
    /\ \E processed \in {normalize(readtext, confidence_threshold)} :
         IF _merge_similar_boxes_raises(processed, MergeIouThreshold)
         THEN RunOcrRaises
         ELSE RunOcrReturns(processed)
    /\ UNCHANGED <<readtext, confidence_threshold, actor_blacklist, iou_args, iou_result,
                   request, response>>

\* A direct call of UseCaseOCR._calculate_iou on the boxes iou_args
CalculateIou ==
    /\ iou_args # <<>>
    /\ iou_result = <<>>
    /\ iou_result' = _calculate_iou(iou_args[1], iou_args[2])
    /\ UNCHANGED <<readtext, confidence_threshold, results, actor_blacklist,
                   filtered_results, use_cases, processed_results, merged_results,
                   unique_results, calls, raised, iou_args, request, response>>

Next == RunOcr

NextIoU == CalculateIou

-----------------------------------------------------------------------------
(* The pipeline on the detections of a diagram (Spec) *)

\* Texts of the modelled diagrams
T_44 == <<"4", "4">>
T_45 == <<"4", "5">>
T_46 == <<"4", "6">>
T_Eliminar == <<"E","l","i","m","i","n","a","r"," ","t","i","p","o"," ","d","e"," ",
                "f","u","e","n","t","e">>
T_Actor1 == <<"A","c","t","o","r","1">>
T_Crear == <<"C","r","e","a","r"," ","p","e","d","i","d","o">>
T_Include == <<"<","<","i","n","c","l","u","d","e",">",">">>
T_X == <<" ", "x", " ">>

Thresholds == {30, 60}

BlacklistArguments == {<<>>, <<T_Actor1, <<" ">> >>}

\* "44" at x = 10 and its description at x = 60 on the same row; the same
\* description read a second time, two pixels higher; an actor's name far to
\* the right, four pixels higher; on a second row a stereotype and a number
\* overlapping it; a one-letter noise detection.
Detections ==
    {Det(T_44, 90, Rect(10, 100, 30, 120)),
     Det(T_Eliminar, 60, Rect(60, 100, 200, 120)),
     Det(T_Eliminar, 90, Rect(60, 98, 200, 118)),
     Det(T_Actor1, 30, Rect(300, 96, 320, 116)),
     Det(T_Include, 60, Rect(10, 200, 90, 220)),
     Det(T_45, 90, Rect(100, 200, 120, 220)),
     Det(T_X, 90, Rect(300, 200, 320, 220))}

Init ==
    /\ readtext \in SeqsUpTo(Detections, MaxDet)
    /\ confidence_threshold \in Thresholds
    /\ \E blacklist_argument \in BlacklistArguments : InitObject(blacklist_argument)
    /\ iou_args = <<>>
    /\ iou_result = <<>>
    /\ NoRequest

Spec == Init /\ [][Next]_vars

-----------------------------------------------------------------------------
(* Properties of the pipeline, checked under Spec *)

Ran == calls # <<>>

\* All sequences of n distinct elements of 1..m
Arrangements(m, n) ==
    {a \in [1..n -> 1..m] : \A i, j \in 1..n : i # j => a[i] # a[j]}

\* C1 Monotonic shrinkage: after a run, the final output is no longer than the
\* Deduplicator's output, which is no longer than the Merger's, which is no
\* longer than the Normalizer's, which is no longer than the raw input.
C1_MonotonicShrinkage ==
    Ran => /\ Len(use_cases) <= Len(unique_results)
           /\ Len(filtered_results) <= Len(unique_results)
           /\ Len(unique_results) <= Len(merged_results)
           /\ Len(merged_results) <= Len(processed_results)
           /\ Len(processed_results) <= Len(results)

\* C1 witness: a second run finished in which the Merger and the Filter each
\* removed something and something was output.
C1_Witness ==
    /\ Len(calls) = 2
    /\ Len(use_cases) >= 1
    /\ Len(use_cases) < Len(unique_results)
    /\ Len(merged_results) < Len(processed_results)

\* C2 Determinism: every run_ocr call on the same object (same raw
\* detections, blacklist and threshold) returned the same ordered list of
\* records, which is also the current self.filtered_results.
C2_Deterministic ==
    \A i \in 1..Len(calls) : calls[i] = calls[1] /\ calls[i] = filtered_results

\* C2 witness: two runs finished and returned a list of at least two records.
C2_Witness == Len(calls) = 2 /\ Len(calls[1]) >= 2 /\ Len(calls[2]) >= 2

\* C3 Blacklist exclusion: no final use case is (lowercase, trimmed) equal to
\* a blacklisted name, and none contains a blacklisted name in its text.
C3_BlacklistExcluded ==
    \A i \in 1..Len(use_cases) : \A a \in 1..Len(actor_blacklist) :
        /\ lower_strip(use_cases[i]) # actor_blacklist[a]
        /\ ~str_in(actor_blacklist[a], lower(use_cases[i]))
        /\ filtered_results[i].text = use_cases[i]

\* C3 witness: a run in which a detection named like a blacklisted actor was
\* merged with another fragment, reached the filter inside the merged text,
\* and some other detection was output.
C3_Witness ==
    /\ Ran
    /\ use_cases # <<>>
    /\ \E a \in 1..Len(actor_blacklist) :
         /\ \E d \in 1..Len(results) : lower_strip(results[d].text) = actor_blacklist[a]
         /\ \E u \in 1..Len(unique_results) :
              /\ merged_count(unique_results[u]) > 1
              /\ str_in(actor_blacklist[a], lower(unique_results[u].text))

\* C4 Stereotype filtering: no final use case contains "<<include>>",
\* whatever the blacklist.
C4_IncludeExcluded ==
    \A i \in 1..Len(use_cases) :
        /\ ~str_in(lower(T_Include), lower(use_cases[i]))
        /\ ~str_in(lower(T_Include), lower(filtered_results[i].text))

\* C4 witness: with an empty blacklist, "<<include>>" was merged with another
\* fragment, the merged detection reached the filter, and another detection
\* was output.
C4_Witness ==
    /\ Ran
    /\ actor_blacklist = <<>>
    /\ use_cases # <<>>
    /\ \E u \in 1..Len(unique_results) :
         /\ merged_count(unique_results[u]) > 1
         /\ str_in(T_Include, unique_results[u].text)
         /\ unique_results[u].text # T_Include

\* C5 Confidence floor: every record of the Normalizer has confidence >= the
\* threshold, and a raw detection has a record exactly when its confidence is
\* not below the threshold and its trimmed text has at least 2 characters.
C5_ConfidenceFloor ==
    Ran =>
      /\ \A p \in 1..Len(processed_results) :
           float_le(to_float(confidence_threshold), processed_results[p].confidence)
      /\ \A d \in 1..Len(results) :
           (results[d].confidence >= confidence_threshold /\ Len(strip(results[d].text)) >= 2)
           <=> \E p \in 1..Len(processed_results) :
                  /\ processed_results[p].original_bbox = results[d].bbox
                  /\ processed_results[p].text = strip(results[d].text)
                  /\ processed_results[p].confidence = to_float(results[d].confidence)
      /\ Len(processed_results) =
           Cardinality({d \in 1..Len(results) :
                           /\ results[d].confidence >= confidence_threshold
                           /\ Len(strip(results[d].text)) >= 2})

\* C5 witness: a run that kept a detection whose confidence equals the
\* threshold and dropped one below the threshold.
C5_Witness ==
    /\ Ran
    /\ \E d \in 1..Len(results) : \E p \in 1..Len(processed_results) :
         /\ results[d].confidence = confidence_threshold
         /\ processed_results[p].original_bbox = results[d].bbox
         /\ processed_results[p].text = strip(results[d].text)
    /\ \E d \in 1..Len(results) :
         /\ results[d].confidence < confidence_threshold
         /\ Len(strip(results[d].text)) >= 2

\* The texts of the normalized detections a, joined with single spaces
JoinedTexts(a) == join(<<" ">>, [k \in 1..Len(a) |-> processed_results[a[k]].text])

T_44_Eliminar == T_44 \o <<" ">> \o T_Eliminar

\* C6 Merge text order: the text of a merged detection is the texts of as many
\* distinct normalized detections as it merged, joined by single spaces in
\* ascending x_min order; and "44" at x = 10 with "Eliminar tipo de fuente" at
\* x = 60 on the same row give exactly one detection, "44 Eliminar tipo de
\* fuente".
C6_MergeTextOrder ==
    Ran =>
      /\ \A m \in 1..Len(merged_results) :
           merged_count(merged_results[m]) > 1 =>
             \E a \in Arrangements(Len(processed_results), merged_count(merged_results[m])) :
                /\ \A k \in 1..(Len(a) - 1) :
                      processed_results[a[k]].x_min <= processed_results[a[k + 1]].x_min
                /\ merged_results[m].text = JoinedTexts(a)
      /\ (/\ Len(results) = 2
          /\ \E d, e \in 1..2 :
               /\ results[d].text = T_44 /\ results[d].bbox = Rect(10, 100, 30, 120)
               /\ results[e].text = T_Eliminar /\ results[e].bbox = Rect(60, 100, 200, 120))
         => (Len(merged_results) = 1 /\ merged_results[1].text = T_44_Eliminar)

\* C6 witness: two detections with different texts were merged and the seed
\* (the first of the sorted list) is the right one of the two.
C6_Witness ==
    /\ Ran
    /\ Len(processed_results) = 2
    /\ Len(merged_results) = 1
    /\ processed_results[1].x_min > processed_results[2].x_min
    /\ processed_results[1].text # processed_results[2].text

\* The envelope fields of the working records a, as lists
MemberField(a, field) == [k \in 1..Len(a) |-> processed_results[a[k]][field]]

\* The exact sum of a list of floats
RECURSIVE ExactSumTo(_, _)
ExactSumTo(values, n) ==
    IF n = 0 THEN big_zero ELSE big_add(ExactSumTo(values, n - 1), values[n])

\* 2^-50, four units in the last place of the float 1.0
MeanTolerance ==
    [i \in 1..FloatDigits |-> IF i = FloatDigits THEN 2 ^ (FloatScale - 50) ELSE 0]

\* The float c is the arithmetic mean of the floats `values`, as exactly as
\* floats allow: n * c and the exact sum differ by at most n * MeanTolerance
IsMean(c, values) ==
    With2(big_times(c, Len(values)), ExactSumTo(values, Len(values)),
          LAMBDA n_times_c, total :
              /\ float_le(n_times_c, big_add(total, big_times(MeanTolerance, Len(values))))
              /\ float_le(total, big_add(n_times_c, big_times(MeanTolerance, Len(values)))))

\* The merged detection r is made of the working records a: its confidence is
\* their arithmetic mean, its box the smallest axis-aligned rectangle covering
\* their envelopes, which holds every corner of every member's box
MadeOf(r, a) ==
    /\ r.text = JoinedTexts(a)
    /\ IsMean(r.confidence, MemberField(a, "confidence"))
    /\ r.bbox = Rect(SeqMin(MemberField(a, "x_min")), SeqMin(MemberField(a, "y_min")),
                     SeqMax(MemberField(a, "x_max")), SeqMax(MemberField(a, "y_max")))
    /\ r.bbox[1][1] <= r.bbox[3][1] /\ r.bbox[1][2] <= r.bbox[3][2]
    /\ \A k \in 1..Len(a) : \A c \in 1..4 :
          /\ r.bbox[1][1] <= processed_results[a[k]].bbox[c][1]
          /\ processed_results[a[k]].bbox[c][1] <= r.bbox[3][1]
          /\ r.bbox[1][2] <= processed_results[a[k]].bbox[c][2]
          /\ processed_results[a[k]].bbox[c][2] <= r.bbox[3][2]

-----------------------------------------------------------------------------
(* The scenario of two actor detections and one use case (SpecScenario) *)

\* A label; nearly the same place; its right neighbour on the row; far right
\* on the row; a second row
ScenarioBoxes ==
    {Rect(40, 100, 100, 120), Rect(42, 102, 102, 122), Rect(120, 100, 180, 120),
     Rect(300, 100, 360, 120), Rect(40, 200, 140, 220)}

InitScenario ==
    /\ \E B1, B1p, B2 \in ScenarioBoxes :
         readtext = <<Det(T_Actor1, 90, B1), Det(T_Actor1, 85, B1p), Det(T_Crear, 60, B2)>>
    /\ confidence_threshold = 30
    /\ InitObject(<<T_Actor1>>)
    /\ iou_args = <<>>
    /\ iou_result = <<>>
    /\ NoRequest

SpecScenario == InitScenario /\ [][Next]_vars

\* The normalized detection of the use case, and those of the actor
UseCaseRecord == CHOOSE p \in 1..Len(processed_results) : processed_results[p].text = T_Crear
ActorRecords == {p \in 1..Len(processed_results) : processed_results[p].text = T_Actor1}

\* The expanded box of the use case shares no area with the rectangle that
\* covers the expanded boxes of the two actor detections
UseCaseApart ==
    LET c == processed_results[UseCaseRecord]
        x_min == SeqMin([k \in 1..2 |-> processed_results[ascending(ActorRecords)[k]].x_min])
        y_min == SeqMin([k \in 1..2 |-> processed_results[ascending(ActorRecords)[k]].y_min])
        x_max == SeqMax([k \in 1..2 |-> processed_results[ascending(ActorRecords)[k]].x_max])
        y_max == SeqMax([k \in 1..2 |-> processed_results[ascending(ActorRecords)[k]].y_max])
    IN  \/ c.x_max <= x_min \/ c.x_min >= x_max
        \/ c.y_max <= y_min \/ c.y_min >= y_max

\* C7 as stated: for every choice of the boxes B1, B1', B2 the final use-case
\* list is exactly ["Crear pedido"].
C7_Original == Ran => use_cases = <<T_Crear>>

\* C7 amended: no Actor1 detection is ever output, so the final use-case list
\* is ["Crear pedido"] or empty; it is exactly ["Crear pedido"] whenever the
\* expanded box B2 shares no area with the rectangle covering the expanded
\* boxes B1 and B1'.
C7_Amended ==
    Ran => /\ use_cases \in {<<>>, <<T_Crear>>}
           /\ filtered_results = [i \in 1..Len(use_cases) |->
                  [bbox |-> processed_results[UseCaseRecord].bbox, text |-> T_Crear,
                   confidence |-> to_float(60)]]
           /\ UseCaseApart => use_cases = <<T_Crear>>

\* C7 witness: the two actor detections were not merged, one was dropped as a
\* duplicate of the other, and the use case, apart from both, was output.
C7_Witness ==
    /\ Ran
    /\ UseCaseApart
    /\ Len(merged_results) = 3
    /\ Len(unique_results) = 2
    /\ use_cases = <<T_Crear>>

-----------------------------------------------------------------------------
(* Two numeric labels at varying places (SpecPair) *)

PairBoxes ==
    {Rect(x, y, x + 20, y + 20) : x \in {10, 60, 150, 300}, y \in {100, 104, 130, 200}}

InitPair ==
    /\ \E b1, b2 \in PairBoxes :
         readtext \in {<<Det(T_45, 90, b1), Det(T_46, 60, b2)>>,
                       <<Det(T_46, 60, b2), Det(T_45, 90, b1)>>}
    /\ confidence_threshold = 30
    /\ \E blacklist_argument \in BlacklistArguments : InitObject(blacklist_argument)
    /\ iou_args = <<>>
    /\ iou_result = <<>>
    /\ NoRequest

SpecPair == InitPair /\ [][Next]_vars

T_45_46 == T_45 \o <<" ">> \o T_46
T_46_45 == T_46 \o <<" ">> \o T_45

\* The two normalized detections
Rec45 == processed_results[CHOOSE p \in 1..2 : processed_results[p].text = T_45]
Rec46 == processed_results[CHOOSE p \in 1..2 : processed_results[p].text = T_46]

\* The horizontal gap between the two envelopes, whichever is on the left
EnvelopeGap(p, q) == Max2(0, Max2(p.x_min, q.x_min) - Min2(p.x_max, q.x_max))

\* Vertical centre distance < 15 and horizontal gap < 100
SpatiallyClose(p, q) ==
    /\ Abs(p.center_y - q.center_y) < 2 * 15
    /\ EnvelopeGap(p, q) < 100

\* Not close, and the envelopes share no area
SpatiallyFar(p, q) ==
    /\ ~SpatiallyClose(p, q)
    /\ \/ p.x_max <= q.x_min \/ q.x_max <= p.x_min
       \/ p.y_max <= q.y_min \/ q.y_max <= p.y_min

\* C8 as stated: "45" and "46" are merged into one detection ("45 46", the
\* labels in left-to-right order) if they are spatially close, and remain two
\* distinct entries of the output if they are spatially far from each other.
C8_Claim ==
    Ran =>
      /\ SpatiallyClose(Rec45, Rec46) =>
           /\ Len(merged_results) = 1
           /\ use_cases \in {<<T_45_46>>, <<T_46_45>>}
      /\ SpatiallyFar(Rec45, Rec46) =>
           /\ Len(use_cases) = 2
           /\ {use_cases[1], use_cases[2]} = {T_45, T_46}

\* C17 as stated: the later detection b is merged with the seed a if and only
\* if iou(a.box, b.box) > 0.2, or the vertical centre distance is < 15 and the
\* horizontal gap between the two envelopes is < 100 and the texts are related;
\* so two detections with IoU <= 0.2 whose envelopes are 100 pixels or more
\* apart horizontally are not merged, whichever of the two lies to the left.
C17_Claim ==
    Ran =>
      \E a \in {processed_results[1]} : \E b \in {processed_results[2]} :
        (Len(merged_results) = 1)
          <=> \/ ratio_gt(_calculate_iou(a.bbox, b.bbox), MergeIouThreshold)
              \/ /\ Abs(a.center_y - b.center_y) < 2 * 15
                 /\ EnvelopeGap(a, b) < 100
                 /\ _should_merge_texts(a.text, b.text)

-----------------------------------------------------------------------------
(* _calculate_iou on pairs of boxes (SpecIoU) *)

MaxCoord == 2

\* Every box whose first and third points lie on the grid 0..MaxCoord: the
\* first point need not be the top-left one and the area may be zero
IouBoxes ==
    {<< <<x1, y1>>, <<x2, y1>>, <<x2, y2>>, <<x1, y2>> >> :
        x1 \in 0..MaxCoord, y1 \in 0..MaxCoord, x2 \in 0..MaxCoord, y2 \in 0..MaxCoord}

InitIoU ==
    /\ readtext = <<>>
    /\ confidence_threshold = 30
    /\ InitObject(<<>>)
    /\ iou_args \in IouBoxes \X IouBoxes
    /\ iou_result = <<>>
    /\ NoRequest

SpecIoU == InitIoU /\ [][NextIoU]_vars

\* C9 IoU range: the ratio returned for any two boxes has
\* 0 <= intersection <= union, so it lies in [0, 1].
C9_IouRange ==
    iou_result # <<>> =>
      /\ iou_result[2] > 0
      /\ 0 <= iou_result[1]
      /\ iou_result[1] <= iou_result[2]

\* C9 witness: a call that returned a ratio strictly between 0 and 1.
C9_Witness ==
    /\ iou_result # <<>>
    /\ 0 < iou_result[1]
    /\ iou_result[1] < iou_result[2]

\* C10 IoU symmetry: the ratio returned for (a, b) equals the one for (b, a),
\* and so do the Merger's and the Deduplicator's threshold tests on it.
C10_IouSymmetric ==
    iou_result # <<>> =>
      \E swapped \in {_calculate_iou(iou_args[2], iou_args[1])} :
        /\ ratio_eq(iou_result, swapped)
        /\ ratio_gt(iou_result, MergeIouThreshold) <=> ratio_gt(swapped, MergeIouThreshold)
        /\ ratio_gt(iou_result, duplicate_iou_threshold)
             <=> ratio_gt(swapped, duplicate_iou_threshold)

\* C10 witness: a call on two overlapping boxes of different areas.
C10_Witness ==
    /\ iou_result # <<>>
    /\ iou_result[1] > 0
    /\ (iou_args[1][3][1] - iou_args[1][1][1]) * (iou_args[1][3][2] - iou_args[1][1][2])
         # (iou_args[2][3][1] - iou_args[2][1][1]) * (iou_args[2][3][2] - iou_args[2][1][2])

\* The axis-aligned envelope of a box: its area, and whether two envelopes
\* share no area
EnvelopeArea(b) ==
    (SeqMax(x_coords(b)) - SeqMin(x_coords(b))) * (SeqMax(y_coords(b)) - SeqMin(y_coords(b)))

EnvelopesApart(a, b) ==
    \/ Max2(SeqMin(x_coords(a)), SeqMin(x_coords(b)))
         >= Min2(SeqMax(x_coords(a)), SeqMax(x_coords(b)))
    \/ Max2(SeqMin(y_coords(a)), SeqMin(y_coords(b)))
         >= Min2(SeqMax(y_coords(a)), SeqMax(y_coords(b)))

\* The first point of the box is its top-left corner and the third its
\* bottom-right corner, with positive width and height
TopLeftFirst(b) == b[1][1] < b[3][1] /\ b[1][2] < b[3][2]

\* The returned ratio is the float 0.0 (a defined value: the denominator is not 0)
IsZero(r) == r[1] = 0 /\ r[2] > 0

\* C11 as stated: iou(x, x) = 1.0 for every box x whose envelope has a
\* non-zero area, and iou is 0.0 whenever the two envelopes share no area or
\* one of them has area 0.
C11_Original ==
    iou_result # <<>> =>
      /\ (iou_args[1] = iou_args[2] /\ EnvelopeArea(iou_args[1]) > 0)
            => ratio_eq(iou_result, <<1, 1>>)
      /\ (\/ EnvelopesApart(iou_args[1], iou_args[2])
          \/ EnvelopeArea(iou_args[1]) = 0
          \/ EnvelopeArea(iou_args[2]) = 0) => IsZero(iou_result)

\* C11 amended: iou(x, x) = 1.0 for every box x whose first point is the
\* top-left corner and whose third point is the bottom-right corner, with
\* positive width and height; for any other box x, iou(x, x) = 0.0; and iou is
\* 0.0 (never an undefined division) whenever the two envelopes share no area
\* or one of them has area 0.
C11_Amended ==
    iou_result # <<>> =>
      /\ iou_result[2] > 0
      /\ (iou_args[1] = iou_args[2] /\ TopLeftFirst(iou_args[1]))
            => ratio_eq(iou_result, <<1, 1>>)
      /\ (iou_args[1] = iou_args[2] /\ ~TopLeftFirst(iou_args[1])) => IsZero(iou_result)
      /\ (\/ EnvelopesApart(iou_args[1], iou_args[2])
          \/ EnvelopeArea(iou_args[1]) = 0
          \/ EnvelopeArea(iou_args[2]) = 0) => IsZero(iou_result)

\* C11 witness: a call on a box of positive area and itself returned 1.0.
C11_Witness ==
    /\ iou_result # <<>>
    /\ iou_args[1] = iou_args[2]
    /\ TopLeftFirst(iou_args[1])
    /\ iou_result[1] = iou_result[2]
    /\ iou_result[1] > 0

-----------------------------------------------------------------------------
(* The image is replaced between two runs on the same object (SpecReread) *)

\* run_ocr reads the image anew at every call (line 625): the reader's output
\* for the image that replaced the first one is empty, or a single detection
\* the Normalizer drops (too short; too low a confidence)
RereadOutputs ==
    {<<>>,
     <<Det(T_X, 90, Rect(300, 200, 320, 220))>>,
     <<Det(T_Crear, 20, Rect(150, 200, 250, 220))>>}

\* The image at self.image_path is replaced by another one
Reread ==
    /\ Len(calls) < MaxRuns
    /\ \E raw \in RereadOutputs : raw # readtext /\ readtext' = raw
    /\ UNCHANGED <<confidence_threshold, results, actor_blacklist, filtered_results,
                   use_cases, processed_results, merged_results, unique_results,
                   calls, raised, iou_args, iou_result, request, response>>

NextReread == RunOcr \/ Reread

RereadDetections ==
    {Det(T_44, 90, Rect(10, 100, 30, 120)),
     Det(T_Eliminar, 60, Rect(60, 100, 200, 120)),
     Det(T_Crear, 30, Rect(150, 200, 250, 220))}

InitReread ==
    /\ readtext \in SeqsUpTo(RereadDetections, MaxDet)
    /\ confidence_threshold \in Thresholds
    /\ \E blacklist_argument \in BlacklistArguments : InitObject(blacklist_argument)
    /\ iou_args = <<>>
    /\ iou_result = <<>>
    /\ NoRequest

SpecReread == InitReread /\ [][NextReread]_vars

\* C12 Empty input is not an error: after a run, a stage that received an
\* empty list returned an empty list; so with an empty raw detection list, or
\* when a stage dropped everything, the use-case list, the record list and the
\* returned list are empty, whatever an earlier run on the object produced.
C12_EmptyPropagates ==
    Ran =>
      /\ results = <<>> => processed_results = <<>>
      /\ processed_results = <<>> => merged_results = <<>>
      /\ merged_results = <<>> => unique_results = <<>>
      /\ unique_results = <<>> =>
           /\ filtered_results = <<>>
           /\ use_cases = <<>>
           /\ calls[Len(calls)] = <<>>

\* C12 witness: a run on an empty raw detection list finished after a run on
\* the same object that had output use cases.
C12_Witness ==
    /\ Len(calls) = 2
    /\ calls[1] # <<>>
    /\ results = <<>>
    /\ readtext = <<>>
    /\ use_cases = <<>>

-----------------------------------------------------------------------------
(* Anomalous detections: zero-area boxes, numeric texts (SpecFatal) *)

T_Sup23 == <<"²", "³">>
T_Sup32 == <<"³", "²">>

\* A number; two texts of superscript digits on its row; a text in a box of
\* area zero; a use case on the same row
FatalDetections ==
    {Det(T_45, 90, Rect(10, 100, 30, 120)),
     Det(T_Sup23, 90, Rect(60, 100, 80, 120)),
     Det(T_Sup32, 60, Rect(150, 100, 170, 120)),
     Det(T_46, 60, Rect(60, 200, 60, 200)),
     Det(T_Crear, 60, Rect(150, 104, 250, 124))}

InitFatal ==
    /\ readtext \in SeqsUpTo(FatalDetections, MaxDet)
    /\ confidence_threshold = 30
    /\ InitObject(<<>>)
    /\ iou_args = <<>>
    /\ iou_result = <<>>
    /\ NoRequest

SpecFatal == InitFatal /\ [][Next]_vars

\* C13 as stated: for any list of raw detections run_ocr runs to completion;
\* no call raises an error.
C13_Claim == raised = "None"

\* A call raises only when two detections that pass the Normalizer both have
\* texts that pass isdigit() and one of them is not a decimal number; in
\* particular not for boxes of area zero or decimal numbers
RaisesOnlyOnNonDecimalDigits ==
    raised # "None" =>
      \E d, e \in 1..Len(results) :
        /\ d # e
        /\ isdigit(lower_strip(results[d].text)) /\ isdigit(lower_strip(results[e].text))
        /\ \/ ~isdecimal(lower_strip(results[d].text))
           \/ ~isdecimal(lower_strip(results[e].text))

-----------------------------------------------------------------------------
(* Actor names added to the blacklist (SpecBlacklist) *)

MaxNames == 2

\* Names of actors as a caller may pass them: plain, with capitals and
\* surrounding blanks, only blanks, empty
N_Admin == <<" ", "A", "d", "m", "i", "n", " ">>
N_Blank == <<" ", " ">>
N_Empty == <<>>
ActorNames == {T_Actor1, N_Admin, N_Blank, N_Empty}

\* A call of UseCaseOCR.add_actor_blacklist(actor_texts)
AddActorBlacklist ==
    /\ Len(actor_blacklist) < MaxNames
    /\ \E actor_texts \in SeqsUpTo(ActorNames, MaxNames) :
          actor_blacklist' = add_actor_blacklist(actor_blacklist, actor_texts)
    /\ UNCHANGED <<readtext, confidence_threshold, results, filtered_results, use_cases,
                   processed_results, merged_results, unique_results, calls, raised,
                   iou_args, iou_result, request, response>>

NextBlacklist == RunOcr \/ AddActorBlacklist

BlacklistDetections ==
    {Det(T_Actor1, 90, Rect(40, 100, 100, 120)),
     Det(T_Crear, 60, Rect(40, 200, 140, 220))}

InitBlacklist ==
    /\ readtext \in SeqsUpTo(BlacklistDetections, MaxDet)
    /\ confidence_threshold = 30
    /\ \E blacklist_argument \in SeqsUpTo(ActorNames, MaxNames) :
          InitObject(blacklist_argument)
    /\ iou_args = <<>>
    /\ iou_result = <<>>
    /\ NoRequest

SpecBlacklist == InitBlacklist /\ [][NextBlacklist]_vars

\* Every entry of the blacklist is non-empty, lowercase and trimmed
BlacklistWellFormed ==
    \A a \in 1..Len(actor_blacklist) :
        /\ actor_blacklist[a] # <<>>
        /\ lower(actor_blacklist[a]) = actor_blacklist[a]
        /\ strip(actor_blacklist[a]) = actor_blacklist[a]

\* C15 Blacklist well-formedness: after construction and after any sequence of
\* add_actor_blacklist calls every entry of the blacklist is a non-empty,
\* lowercase, trimmed string (empty and whitespace-only names are never added),
\* and a step in which run_ocr runs leaves the blacklist unchanged.
C15_BlacklistWellFormed ==
    /\ []BlacklistWellFormed
    /\ [][(calls' # calls \/ results' # results \/ raised' # raised)
             => actor_blacklist' = actor_blacklist]_vars

\* C15 witness: a blacklist of two entries, one from a name with capitals and
\* surrounding blanks, built from arguments that also held blank names, after
\* which run_ocr ran.
C15_Witness ==
    /\ Ran
    /\ Len(actor_blacklist) = 2
    /\ \E a \in 1..2 : actor_blacklist[a] = <<"a", "d", "m", "i", "n">>
    /\ \E a \in 1..2 : actor_blacklist[a] = lower(T_Actor1)

-----------------------------------------------------------------------------
(* Three numeric labels along a row (SpecChain) *)

\* Three places 140 pixels apart on a row, and the same places 4 pixels lower
ChainBoxes ==
    {Rect(x, y, x + 20, y + 20) : x \in {10, 150, 290}, y \in {100, 104}}

InitChain ==
    /\ \E b1, b2, b3 \in ChainBoxes :
         readtext = <<Det(T_44, 90, b1), Det(T_45, 60, b2), Det(T_46, 30, b3)>>
    /\ confidence_threshold = 30
    /\ InitObject(<<>>)
    /\ iou_args = <<>>
    /\ iou_result = <<>>
    /\ NoRequest

SpecChain == InitChain /\ [][Next]_vars

\* The first (in the Merger's sorted order) of the working records a
FirstOf(a) == CHOOSE s \in {a[k] : k \in 1..Len(a)} : \A k \in 1..Len(a) : s <= a[k]

\* The Merger's decision for the working records p (as seed) and q
Mergeable(p, q) == should_merge(processed_results[p], processed_results[q], MergeIouThreshold)

\* C16 Seed-only merging: every member of a cluster other than its seed (the
\* first member in the Merger's sorted order) is directly mergeable with the
\* seed; and in a chain A-B-C (sorted order) where A-B and B-C are mergeable
\* but A-C is not, B is placed in A's cluster and C is not.
C16_SeedOnly ==
    Ran =>
      /\ \A m \in 1..Len(merged_results) :
           merged_count(merged_results[m]) > 1 =>
             \E a \in Arrangements(Len(processed_results), merged_count(merged_results[m])) :
                /\ merged_results[m].text = JoinedTexts(a)
                /\ \A k \in 1..Len(a) : a[k] # FirstOf(a) => Mergeable(FirstOf(a), a[k])
      /\ (Mergeable(1, 2) /\ Mergeable(2, 3) /\ ~Mergeable(1, 3)) =>
           /\ Len(merged_results) = 2
           /\ \E m, n \in 1..2 :
                /\ merged_count(merged_results[m]) = 2
                /\ merged_results[m].text \in {JoinedTexts(<<1, 2>>), JoinedTexts(<<2, 1>>)}
                /\ merged_count(merged_results[n]) = 1
                /\ merged_results[n].text = processed_results[3].text

\* C16 witness: a chain A-B-C in which A-B and B-C are mergeable and A-C is
\* not was merged into two detections.
C16_Witness ==
    /\ Ran
    /\ Mergeable(1, 2) /\ Mergeable(2, 3) /\ ~Mergeable(1, 3)
    /\ Len(merged_results) = 2

\* The working records that the assignment `cluster` places in the merged
\* detection m
ClusterOf(cluster, m) == {p \in 1..Len(processed_results) : cluster[p] = m}

\* C27 The Merger partitions its input: the working records can be assigned,
\* each to one merged detection, so that every merged detection has as many
\* records as its merged count (1 when unmerged), at least one, and its text is
\* made of exactly their texts; so the merged counts add up to the number of
\* working records and no text is lost or repeated.
C27_Partition ==
    Ran =>
      /\ SeqSum([m \in 1..Len(merged_results) |-> merged_count(merged_results[m])])
           = Len(processed_results)
      /\ \E cluster \in [1..Len(processed_results) -> 1..Len(merged_results)] :
           \A m \in 1..Len(merged_results) :
             /\ ClusterOf(cluster, m) # {}
             /\ Cardinality(ClusterOf(cluster, m)) = merged_count(merged_results[m])
             /\ Len(split(merged_results[m].text)) = merged_count(merged_results[m])
             /\ word_set(merged_results[m].text)
                  = {processed_results[p].text : p \in ClusterOf(cluster, m)}

\* C27 witness: the third working record is mergeable with the first and with
\* the second, which are not mergeable with each other; it was placed with the
\* first only.
C27_Witness ==
    /\ Ran
    /\ Mergeable(1, 3) /\ Mergeable(2, 3) /\ ~Mergeable(1, 2)
    /\ Len(merged_results) = 2
    /\ \E m, n \in 1..2 :
         /\ merged_count(merged_results[m]) = 2
         /\ processed_results[3].text \in word_set(merged_results[m].text)
         /\ merged_results[n].text = processed_results[2].text

-----------------------------------------------------------------------------
(* Near-duplicate labels at varying places (SpecDedup) *)

T_PedidoCrear == <<"p","e","d","i","d","o"," ","C","r","e","a","r">>
T_PedidoCrearYa == T_PedidoCrear \o <<" ","y","a">>
T_PedidoNuevoCrear ==
    <<"p","e","d","i","d","o"," ","n","u","e","v","o"," ","C","r","e","a","r">>

\* "Crear pedido"; then the same label, the same words in another order, or
\* with a word more; then the words in another order, those with a word
\* after them, or the name of the blacklisted actor
InitDedup ==
    /\ \E b1, b2, b3 \in ScenarioBoxes :
       \E t2 \in {T_Crear, T_PedidoCrear, T_PedidoNuevoCrear} :
       \E t3 \in {T_PedidoCrear, T_PedidoCrearYa, T_Actor1} :
         readtext = <<Det(T_Crear, 90, b1), Det(t2, 60, b2), Det(t3, 60, b3)>>
    /\ confidence_threshold = 30
    /\ InitObject(<<T_Actor1>>)
    /\ iou_args = <<>>
    /\ iou_result = <<>>
    /\ NoRequest

SpecDedup == InitDedup /\ [][Next]_vars

\* textSimilarity of the claim: 1.0 when either lowercase, trimmed text is a
\* substring of the other, otherwise the Jaccard index of the word sets (0.0
\* when a word set is empty)
ClaimedSimilarity(text1, text2) ==
    LET t1 == lower_strip(text1)
        t2 == lower_strip(text2)
        w1 == {split(t1)[k] : k \in 1..Len(split(t1))}
        w2 == {split(t2)[k] : k \in 1..Len(split(t2))}
    IN  IF str_in(t1, t2) \/ str_in(t2, t1) THEN <<1, 1>>
        ELSE IF w1 = {} \/ w2 = {} THEN <<0, 1>>
        ELSE <<Cardinality(w1 \cap w2), Cardinality(w1 \cup w2)>>

\* The detections r and q are near-duplicates
NearDuplicates(r, q) ==
    \/ ratio_gt(ClaimedSimilarity(r.text, q.text), DedupSimilarityThreshold)
    \/ ratio_gt(_calculate_iou(r.bbox, q.bbox), <<5, 10>>)

\* The positions of the Deduplicator's (sorted) list that the rule of the
\* claim accepts: those with no near-duplicate among the accepted ones before
ClaimedAccepted ==
    LET acc[k \in 1..Len(merged_results)] ==
            ~\E u \in 1..(k - 1) :
                acc[u] /\ NearDuplicates(merged_results[k], merged_results[u])
    IN  {k \in 1..Len(merged_results) : acc[k]}

\* C19 Duplicate elimination: the Deduplicator's output is its list without
\* the detections that have text similarity > 0.7 or IoU > 0.5 with a detection
\* accepted before them; a discarded detection is a near-duplicate of an
\* accepted one whose confidence is not lower than its own.
C19_DuplicateElimination ==
    Ran =>
      /\ unique_results =
           [i \in 1..Cardinality(ClaimedAccepted) |->
               merged_results[ascending(ClaimedAccepted)[i]]]
      /\ \A k \in (1..Len(merged_results)) \ ClaimedAccepted :
           \E u \in ClaimedAccepted :
              /\ u < k
              /\ float_le(merged_results[k].confidence, merged_results[u].confidence)
              /\ NearDuplicates(merged_results[k], merged_results[u])

\* C19 witness: a run in which a detection was discarded for its IoU > 0.5
\* with a detection accepted before it, their texts not being similar.
C19_Witness ==
    /\ Ran
    /\ Len(unique_results) < Len(merged_results)
    /\ \E k \in 1..Len(merged_results) : \E u \in ClaimedAccepted :
         /\ u < k
         /\ k \notin ClaimedAccepted
         /\ ~ratio_gt(ClaimedSimilarity(merged_results[k].text, merged_results[u].text),
                      DedupSimilarityThreshold)
         /\ ratio_gt(_calculate_iou(merged_results[k].bbox, merged_results[u].bbox), <<5, 10>>)


\* The list the Merger returns for the image of the state
MergerOutput ==
    _merge_similar_boxes(normalize(readtext, confidence_threshold), MergeIouThreshold)

\* The sequence a is b without some of its elements, the others in b's order
IsSubsequence(a, b) ==
    \E keep \in SUBSET (1..Len(b)) :
        /\ Cardinality(keep) = Len(a)
        /\ \A i \in 1..Len(a) : a[i] = b[ascending(keep)[i]]

\* The elements of `list` that have the confidence c, in their order
WithConfidence(list, c) == SelectSeq(list, LAMBDA r : r.confidence = c)

\* C20 Output ordering: the Deduplicator's output is ordered by confidence
\* non-increasing, detections of equal confidence in their relative order of the
\* Merger's output; the final use cases are a subsequence of the Deduplicator's
\* output in the same order, so their confidence does not increase either.
C20_OutputOrdering ==
    Ran =>
      \E merger_output \in {MergerOutput} :
        /\ \A i, j \in 1..Len(unique_results) :
             i < j => float_le(unique_results[j].confidence, unique_results[i].confidence)
        /\ \A i \in 1..Len(unique_results) :
             IsSubsequence(WithConfidence(unique_results, unique_results[i].confidence),
                           WithConfidence(merger_output, unique_results[i].confidence))
        /\ IsSubsequence(use_cases, [i \in 1..Len(unique_results) |-> unique_results[i].text])
        /\ IsSubsequence(filtered_results,
                         [i \in 1..Len(unique_results) |->
                             [bbox |-> unique_results[i].bbox, text |-> unique_results[i].text,
                              confidence |-> unique_results[i].confidence]])
        /\ \A i, j \in 1..Len(filtered_results) :
             i < j => float_le(filtered_results[j].confidence, filtered_results[i].confidence)

\* C20 witness: three detections left by the Deduplicator, in another order than
\* the Merger's and than the reader's, the last two of equal confidence, and two
\* of the three are the final use cases.
C20_Witness ==
    /\ Ran
    /\ Len(unique_results) = 3
    /\ unique_results[2].confidence = unique_results[3].confidence
    /\ unique_results # MergerOutput
    /\ [i \in 1..3 |-> unique_results[i].text] # [i \in 1..3 |-> readtext[i].text]
    /\ Len(use_cases) = 2

\* C28 No two detections of the Deduplicator's output are duplicates of each
\* other: for every pair, in either order, the text similarity is at most 0.7
\* and the IoU at most 0.5; no text of the output is contained in another one;
\* and the Deduplicator applied to its own output returns it unchanged.
C28_NoDuplicatesLeft ==
    Ran =>
      /\ \A i, j \in 1..Len(unique_results) :
           i # j =>
             /\ ~ratio_gt(ClaimedSimilarity(unique_results[i].text, unique_results[j].text),
                          <<7, 10>>)
             /\ ~ratio_gt(_calculate_iou(unique_results[i].bbox, unique_results[j].bbox),
                          <<5, 10>>)
             /\ ~str_in(unique_results[i].text, unique_results[j].text)
      /\ _remove_duplicate_cases(unique_results, DedupSimilarityThreshold) = unique_results

\* C28 witness: a run in which a detection was discarded and two detections
\* were accepted whose texts are similar without being near-duplicates (words
\* in common, similarity at most 0.7).
C28_Witness ==
    /\ Ran
    /\ Len(unique_results) >= 2
    /\ Len(unique_results) < Len(merged_results)
    /\ \E i, j \in 1..Len(unique_results) :
         /\ i # j
         /\ ratio_gt(ClaimedSimilarity(unique_results[i].text, unique_results[j].text), <<0, 1>>)

-----------------------------------------------------------------------------
(* One label through the filter, for every kind of text (SpecFilter) *)

T_ActorUpper == <<"A","C","T","O","R","1">>
T_ElActor1 == <<"E","l"," ","A","c","t","o","r","1">>
T_Act == <<"A","c","t">>
T_Includ == <<"I","n","c","l","u","d">>
T_IncSplit == <<"i","n","c","<","<","l","u","d","e">>
T_ExtSplit == <<"e","x","t",">",">","e","n","d">>
T_Atender == <<"A","t","e","n","d","e","r"," ","c","l","i","e","n","t","e">>
T_TEND == <<"T","E","N","D">>
T_ArrowExtend == <<"-",">"," ","E","x","t","e","n","d">>
T_Arrow == <<"-",">"," ","p","a","g","o">>
T_Incluir == <<"I","n","c","l","u","i","r"," ","p","a","g","o">>
T_ExtendOpen == <<"<","<"," ","e","x","t","e","n","d">>
T_Ten_d == <<"t","e","n"," ","d","e","r">>

\* Labels of use cases, of the actor, and relation texts of every kind
FilterTexts ==
    {T_Crear, T_Actor1, T_ActorUpper, T_ElActor1, T_Act, T_Include, T_Includ,
     T_IncSplit, T_ExtSplit, T_Atender, T_TEND, T_ArrowExtend, T_Arrow, T_Incluir,
     T_ExtendOpen, T_Ten_d, T_45}

FilterBlacklists == {<<>>, <<T_Actor1>>, <<T_Actor1, T_Atender>>}

InitFilter ==
    /\ \E text \in FilterTexts : \E pad \in {<<>>, <<" ">>} :
         readtext = <<Det(pad \o text \o pad, 90, Rect(40, 100, 100, 120))>>
    /\ confidence_threshold = 30
    /\ \E blacklist_argument \in FilterBlacklists : InitObject(blacklist_argument)
    /\ iou_args = <<>>
    /\ iou_result = <<>>
    /\ NoRequest

SpecFilter == InitFilter /\ [][Next]_vars

\* Check (1) of the claim: a blacklisted name equals the lowercased text, or
\* either contains the other
ClaimedBlacklisted(text) ==
    \E a \in 1..Len(actor_blacklist) :
        \/ actor_blacklist[a] = lower(text)
        \/ str_in(actor_blacklist[a], lower(text))
        \/ str_in(lower(text), actor_blacklist[a])

\* Check (2): the text with << and >> removed contains include, extend or includ
ClaimedRelationWord(text) ==
    LET clean == replace(replace(lower(text), lt2, <<>>), gt2, <<>>)
    IN  \/ str_in(include, clean)
        \/ str_in(extend, clean)
        \/ str_in(SubSeq(include, 1, 6), clean)

\* Check (3): a stereotype regular expression matches the lowercase text
ClaimedStereotype(text) ==
    \E p \in 1..Len(uml_patterns) : re_search(uml_patterns[p], lower(text))

\* Check (4): an arrow glyph, and also include or extend
ClaimedArrow(text) ==
    /\ \E arrow \in {<<"-", ">">>, <<"-", "-", ">">>, gt2, lt2} : str_in(arrow, text)
    /\ (str_in(include, lower(text)) \/ str_in(extend, lower(text)))

\* The label of the state's image, as the filter receives it
FilterLabel == strip(readtext[1].text)

\* C21 Filter decision: the label is left out of the output exactly when one
\* of the four checks holds for it (blacklist, relation word, stereotype
\* pattern, arrow with relation word); a label failing all four is the output,
\* and a label containing 'tend' is always left out.
C21_FilterDecision ==
    Ran =>
      /\ use_cases = IF \/ ClaimedBlacklisted(FilterLabel)
                        \/ ClaimedRelationWord(FilterLabel)
                        \/ ClaimedStereotype(FilterLabel)
                        \/ ClaimedArrow(FilterLabel)
                     THEN <<>> ELSE <<FilterLabel>>
      /\ Len(filtered_results) = Len(use_cases)
      /\ str_in(<<"t","e","n","d">>, lower(FilterLabel)) => use_cases = <<>>

\* C21 witness: a label left out only for the catch-all 'tend' (no blacklisted
\* name, no relation word, no arrow).
C21_Witness ==
    /\ Ran
    /\ use_cases = <<>>
    /\ str_in(<<"t","e","n","d">>, lower(FilterLabel))
    /\ ~ClaimedBlacklisted(FilterLabel)
    /\ ~ClaimedRelationWord(FilterLabel)
    /\ ~ClaimedArrow(FilterLabel)

-----------------------------------------------------------------------------
(* Short and padded texts in boxes of every shape (SpecNormalizer) *)

T_4 == <<"4">>
T_44_Padded == <<" ", "4", "4", " ">>
T_Blank == <<" ", " ">>
T_None == <<>>

\* A box in the top-left corner of the image, one in the bottom-right corner,
\* one along the bottom edge, one far from every edge, the same listed from its
\* bottom-right corner, and a slanted quadrilateral
NormalizerBoxes ==
    {Rect(0, 0, 20, 20),
     Rect(ImageWidth - 20, ImageHeight - 20, ImageWidth, ImageHeight),
     Rect(10, ImageHeight - 10, ImageWidth - 5, ImageHeight - 5),
     Rect(100, 100, 160, 120),
     << <<160, 120>>, <<100, 120>>, <<100, 100>>, <<160, 100>> >>,
     << <<100, 105>>, <<160, 100>>, <<162, 120>>, <<102, 125>> >>}

NormalizerTexts == {T_4, T_44, T_X, T_44_Padded, T_Blank, T_None, T_Crear}

InitNormalizer ==
    /\ \E t1 \in NormalizerTexts, b1 \in NormalizerBoxes :
       \E t2 \in {T_44, T_X}, c2 \in {20, 90} :
         readtext = <<Det(t1, 90, b1), Det(t2, c2, Rect(300, 200, 320, 220))>>
    /\ confidence_threshold = 30
    /\ InitObject(<<>>)
    /\ iou_args = <<>>
    /\ iou_result = <<>>
    /\ NoRequest

SpecNormalizer == InitNormalizer /\ [][Next]_vars

\* The raw detections that survive: confidence not below the threshold and a
\* trimmed text of at least 2 characters
Survivors ==
    SelectSeq(results, LAMBDA r : /\ r.confidence >= confidence_threshold
                                  /\ Len(strip(r.text)) >= 2)

\* C22 Normalizer text handling: a raw detection whose trimmed text has fewer
\* than 2 characters has no record, one of 2 characters (and a confidence not
\* below the threshold) has one; the text of each record is the trimmed text,
\* its box the expanded box, and its original box the raw box unchanged.
C22_NormalizerTexts ==
    Ran =>
      /\ Len(processed_results) = Len(Survivors)
      /\ \A p \in 1..Len(processed_results) :
           \E d \in {processed_results[p].id + 1} :
             /\ d \in 1..Len(Survivors)
             /\ processed_results[p].text = strip(Survivors[d].text)
             /\ Len(processed_results[p].text) >= 2
             /\ processed_results[p].original_bbox = Survivors[d].bbox
             /\ processed_results[p].bbox =
                  _expand_bbox(Survivors[d].bbox, expand_x, expand_y, ImageWidth, ImageHeight)
      /\ \A p, q \in 1..Len(processed_results) :
           p # q => processed_results[p].id # processed_results[q].id

\* C22 witness: a run that dropped a detection for its one-character text
\* between blanks and kept the padded label " 44 " as "44".
C22_Witness ==
    /\ Ran
    /\ results = <<Det(T_44_Padded, 90, Rect(100, 100, 160, 120)),
                   Det(T_X, 90, Rect(300, 200, 320, 220))>>
    /\ Len(processed_results) = 1
    /\ processed_results[1].text = T_44
    /\ processed_results[1].original_bbox = Rect(100, 100, 160, 120)

\* The smallest and the largest coordinates of the points of a box
Envelope(box) ==
    [left |-> SeqMin(x_coords(box)), top |-> SeqMin(y_coords(box)),
     right |-> SeqMax(x_coords(box)), bottom |-> SeqMax(y_coords(box))]

-----------------------------------------------------------------------------
(* Two labels side by side, of every kind of text (SpecTexts) *)

T_48 == <<"4", "8">>
T_047 == <<"0", "4", "7">>
T_445 == <<"4", "4", "5">>
T_CrearUpper == <<"C","R","E","A","R"," ","P","E","D","I","D","O">>
T_DeLa == <<"d", "e", " ", "l", "a">>
T_LaDe == <<"l", "a", " ", "d", "e">>

TextsSideBySide ==
    {T_44, T_45, T_46, T_48, T_047, T_445, T_Crear, T_CrearUpper, T_PedidoCrear,
     T_DeLa, T_LaDe, T_Sup32}

\* Two labels on one row, 120 pixels apart: their expanded boxes are 60 pixels
\* apart, so that the Merger joins them exactly when _should_merge_texts
\* returns True
InitTexts ==
    /\ \E text1, text2 \in TextsSideBySide :
         readtext = <<Det(text1, 90, Rect(10, 100, 30, 120)),
                      Det(text2, 60, Rect(150, 100, 170, 120))>>
    /\ confidence_threshold = 30
    /\ InitObject(<<>>)
    /\ iou_args = <<>>
    /\ iou_result = <<>>
    /\ NoRequest

SpecTexts == InitTexts /\ [][Next]_vars

\* Purely numeric: a non-empty text of digits only
PurelyNumeric(t) ==
    /\ t # <<>>
    /\ \A k \in 1..Len(t) :
         t[k] \in {Digits[d] : d \in 1..Len(Digits)} \cup SuperscriptDigits

\* The whitespace-separated tokens of t
Tokens(t) == {split(t)[k] : k \in 1..Len(split(t))}

\* The four cases of the claim, on the trimmed, lowercased texts
ClaimedRelated(text1, text2) ==
    LET t1 == lower_strip(text1)
        t2 == lower_strip(text2)
    IN  \/ str_in(t1, t2) \/ str_in(t2, t1)
        \/ (PurelyNumeric(t1) /\ ~PurelyNumeric(t2))
        \/ (PurelyNumeric(t2) /\ ~PurelyNumeric(t1))
        \/ /\ PurelyNumeric(t1) /\ PurelyNumeric(t2)
           /\ isdecimal(t1) /\ isdecimal(t2)
           /\ int(t1) - int(t2) \in -2..2
        \/ \E token \in Tokens(t1) \cap Tokens(t2) : Len(token) > 3

\* The Merger joined the two labels of the image
LabelsJoined == Len(merged_results) = 1

\* C24 as stated: the text-relatedness test of the two labels has a value, and
\* it is true exactly in the four cases of the claim (substring, exactly one
\* purely numeric, both numeric and at most 2 apart, a common token of more
\* than 3 characters).
C24_Claim ==
    (Ran \/ raised # "None") =>
      /\ raised = "None"
      /\ LabelsJoined <=> ClaimedRelated(readtext[1].text, readtext[2].text)

\* Whenever the test returns, its value is the one the claim states
RelatedAsClaimedWhenReturned ==
    Ran => (LabelsJoined <=> ClaimedRelated(readtext[1].text, readtext[2].text))

\* The test raises only on two purely numeric texts one of which is not a
\* decimal number
TextsRaiseOnlyOnNonDecimalDigits ==
    raised # "None" =>
      /\ PurelyNumeric(readtext[1].text) /\ PurelyNumeric(readtext[2].text)
      /\ ~isdecimal(readtext[1].text) \/ ~isdecimal(readtext[2].text)

-----------------------------------------------------------------------------
(* Runs on one object while the image changes (SpecSequence) *)

\* What the reader returns for the images: a use case and an actor; a number,
\* its description and a stereotype; two numeric labels on which the run
\* raises; nothing
SequenceOutputs ==
    {<<Det(T_Crear, 90, Rect(150, 200, 250, 220)), Det(T_Actor1, 60, Rect(300, 96, 320, 116))>>,
     <<Det(T_44, 90, Rect(10, 100, 30, 120)), Det(T_Eliminar, 60, Rect(60, 100, 200, 120)),
       Det(T_Include, 60, Rect(10, 200, 90, 220))>>,
     <<Det(T_45, 90, Rect(10, 100, 30, 120)), Det(T_Sup32, 60, Rect(150, 100, 170, 120))>>,
     <<>>}

\* The image at self.image_path is replaced by another one of the images
ReplaceImage ==
    /\ Len(calls) < MaxRuns
    /\ \E raw \in SequenceOutputs : raw # readtext /\ readtext' = raw
    /\ UNCHANGED <<confidence_threshold, results, actor_blacklist, filtered_results,
                   use_cases, processed_results, merged_results, unique_results,
                   calls, raised, iou_args, iou_result, request, response>>

NextSequence == RunOcr \/ ReplaceImage

InitSequence ==
    /\ readtext \in SequenceOutputs
    /\ confidence_threshold \in Thresholds
    /\ \E blacklist_argument \in BlacklistArguments : InitObject(blacklist_argument)
    /\ iou_args = <<>>
    /\ iou_result = <<>>
    /\ NoRequest

SpecSequence == InitSequence /\ [][NextSequence]_vars

\* C25 Exposed results stay consistent: at every moment the list of use-case
\* texts and the list of records have the same length, use_cases[i] is the text
\* of filtered_results[i], every record has the fields text, confidence and
\* bbox only, and get_formatted_results numbers the records 1..n in that order.
C25_ExposedConsistent ==
    /\ Len(get_use_cases(use_cases)) = Len(filtered_results)
    /\ \A i \in 1..Len(filtered_results) :
         /\ get_use_cases(use_cases)[i] = filtered_results[i].text
         /\ DOMAIN filtered_results[i] = {"text", "confidence", "bbox"}
    /\ \E formatted \in {get_formatted_results(filtered_results)} :
         /\ Len(formatted) = Len(use_cases)
         /\ \A i \in 1..Len(formatted) :
              /\ formatted[i].id = i
              /\ formatted[i].text = use_cases[i]
              /\ formatted[i].confidence = filtered_results[i].confidence
              /\ formatted[i].bbox = filtered_results[i].bbox

\* C25 witness: the second run on the object has returned two records, after a
\* first run on another image that returned one.
C25_Witness ==
    /\ Len(calls) = 2
    /\ Len(calls[1]) = 1
    /\ Len(filtered_results) = 2
    /\ use_cases # calls[1][1].text

-----------------------------------------------------------------------------
(* The API caller: detect_actors of main.py (SpecApi) *)

allowed_extensions ==
    {<<".","p","n","g">>, <<".","j","p","g">>, <<".","j","p","e","g">>, <<".","b","m","p">>, <<".","t","i","f","f">>, <<".","w","e","b","p">>}

\* The answers of the handler: a successful response, or the HTTPException
\* that leaves it
Answer(status_code, detail) == [status_code |-> status_code, detail |-> detail]

\* The processing of lines 89-118 raises: the image cannot be read
\* (UseCaseOCR.__init__ raises ValueError), or run_ocr raises on the reader's
\* output
processing_raises(req, raw) ==
    \/ ~req.image_readable
    \/ _merge_similar_boxes_raises(normalize(raw, req.ocr_confidence), MergeIouThreshold)

\* The branches on format.lower() (lines 124-216): the HTTPException(400) of the
\* else branch is raised inside the try block, whose handler
\* `except Exception` (lines 218-223) turns it into an HTTPException(500)
answer_for_format(format) ==
    IF lower(format) = <<"j","s","o","n">> THEN Answer(200, "success")
    ELSE IF lower(format) = <<"p","d","f">> THEN Answer(200, "success")
    ELSE IF lower(format) = <<"c","o","m","p","a","c","t","-","p","d","f">> THEN Answer(200, "success")
    ELSE Answer(500, "Error processing image")

\* detect_actors: the answer to the request req when the reader returns raw
\* (confidences in hundredths)
detect_actors(req, raw) ==
    IF lower(req.file_extension) \notin allowed_extensions
    THEN Answer(400, "File type not allowed")
    ELSE IF ~(10 <= req.ocr_confidence /\ req.ocr_confidence <= 100)
    THEN Answer(400, "OCR confidence must be between 0.1 and 1.0")
    ELSE IF processing_raises(req, raw)
    THEN Answer(500, "Error processing image")
    ELSE answer_for_format(req.format)

\* The handler of POST /detect-actors/
DetectActors ==
    /\ request # <<>>
    /\ response = <<>>
    /\ response' = detect_actors(request, readtext)
    /\ UNCHANGED <<readtext, confidence_threshold, results, actor_blacklist,
                   filtered_results, use_cases, processed_results, merged_results,
                   unique_results, calls, raised, iou_args, iou_result, request>>

NextApi == DetectActors

F_pdf == <<"p","d","f">>
F_json == <<"j","s","o","n">>
F_compact_pdf == <<"c","o","m","p","a","c","t","-","p","d","f">>
F_JSON == <<"J","S","O","N">>
F_xml == <<"x","m","l">>

\* Requests: the extension of the uploaded file's name, the query parameters
\* format and ocr_confidence, and whether the uploaded file is an image
Requests ==
    [file_extension : {<<".","p","n","g">>, <<".","P","N","G">>, <<".","g","i","f">>, <<>>},
     ocr_confidence : {5, 10, 30, 100, 101},
     format : {F_pdf, F_json, F_compact_pdf, F_JSON, F_xml},
     image_readable : BOOLEAN]

InitApi ==
    /\ readtext \in {<<Det(T_Crear, 90, Rect(150, 200, 250, 220))>>,
                     <<Det(T_45, 90, Rect(10, 100, 30, 120)),
                       Det(T_Sup32, 60, Rect(150, 100, 170, 120))>>}
    /\ confidence_threshold = 30
    /\ InitObject(<<>>)
    /\ iou_args = <<>>
    /\ iou_result = <<>>
    /\ request \in Requests
    /\ response = <<>>

SpecApi == InitApi /\ [][NextApi]_vars

\* The request names a format other than pdf, json and compact-pdf
InvalidFormat == lower(request.format) \notin {F_pdf, F_json, F_compact_pdf}

\* The request passes the validation of the file type and of the confidence
PassesValidation ==
    /\ lower(request.file_extension) \in allowed_extensions
    /\ request.ocr_confidence \in 10..100

\* C26 as stated: a request with a disallowed file type or a confidence outside
\* [0.1, 1.0] is answered with status 400, and so is a request with an invalid
\* format whose image was processed; status 500 is answered only when the
\* processing failed.
C26_Claim ==
    response # <<>> =>
      /\ ~PassesValidation => response.status_code = 400
      /\ (PassesValidation /\ ~processing_raises(request, readtext) /\ InvalidFormat)
           => response.status_code = 400
      /\ response.status_code = 500 => processing_raises(request, readtext)

\* What the handler does instead: the two validations before the try block are
\* answered with 400, an invalid format with 500 like a processing failure
InvalidFormatAnswered500 ==
    response # <<>> =>
      /\ ~PassesValidation => response.status_code = 400
      /\ PassesValidation =>
           response.status_code =
             (IF processing_raises(request, readtext) \/ InvalidFormat THEN 500 ELSE 200)


-----------------------------------------------------------------------------
(* The confidence of the returned records (SpecMean) *)

T_Buscar == <<"B","u","s","c","a","r">>
T_Pagar == <<"P","a","g","a","r">>

\* Boxes of three labels: overlapping the first label, or apart from it
MeanBoxes ==
    {Rect(42, 102, 102, 122), Rect(44, 104, 104, 124), Rect(300, 100, 360, 120),
     Rect(40, 200, 140, 220)}

\* Confidences and thresholds, in hundredths
MeanConfidences == {35, 70, 90}
MeanThresholds == {35, 70}

\* Three labels of any of the confidences, the second and the third on the
\* first label or apart from it, read with any of the thresholds
InitMean ==
    /\ \E c1, c2, c3 \in MeanConfidences :
       \E b2, b3 \in MeanBoxes :
         readtext = <<Det(T_Crear, c1, Rect(40, 100, 100, 120)), Det(T_Buscar, c2, b2),
                      Det(T_Pagar, c3, b3)>>
    /\ confidence_threshold \in MeanThresholds
    /\ InitObject(<<T_Actor1>>)
    /\ iou_args = <<>>
    /\ iou_result = <<>>
    /\ NoRequest

SpecMean == InitMean /\ [][Next]_vars

\* The working records a record of the Merger is made of
MembersOf(m) ==
    CHOOSE a \in Arrangements(Len(processed_results), merged_count(merged_results[m])) :
        MadeOf(merged_results[m], a)

\* C29 as stated: every record returned by the pipeline has a confidence >=
\* the threshold, and the confidence of a record merged from a cluster is not
\* below the smallest confidence of the cluster's members.  Violated: the mean
\* of line 334 is computed in floats, and sum / len of three equal floats can
\* be the float below them.
C29_Claim ==
    Ran =>
      /\ \A i \in 1..Len(filtered_results) :
           float_le(to_float(confidence_threshold), filtered_results[i].confidence)
      /\ \A m \in 1..Len(merged_results) :
           merged_count(merged_results[m]) > 1 =>
             \E k \in 1..merged_count(merged_results[m]) :
                float_le(processed_results[MembersOf(m)[k]].confidence,
                         merged_results[m].confidence)

\* What holds instead: a returned record is a record of the Merger with its
\* confidence; an unmerged record has the confidence of its working record,
\* which is not below the threshold, and so has the mean of two members; the
\* mean of a larger cluster is below the threshold by less than MeanTolerance.
FloorUpToRounding ==
    Ran =>
      /\ \A i \in 1..Len(filtered_results) :
           \E m \in 1..Len(merged_results) :
              /\ filtered_results[i].text = merged_results[m].text
              /\ filtered_results[i].confidence = merged_results[m].confidence
      /\ \A m \in 1..Len(merged_results) :
           /\ merged_count(merged_results[m]) <= 2 =>
                float_le(to_float(confidence_threshold), merged_results[m].confidence)
           /\ float_le(to_float(confidence_threshold),
                       big_add(merged_results[m].confidence, MeanTolerance))

\* A run that returned a record merged from three members of the confidence of
\* the threshold, with a confidence below the threshold
BelowFloorReturned ==
    /\ Ran
    /\ Len(processed_results) = 3
    /\ \A p \in 1..3 : processed_results[p].confidence = to_float(confidence_threshold)
    /\ Len(filtered_results) = 1
    /\ float_less(filtered_results[1].confidence, to_float(confidence_threshold))

=============================================================================
